---------------------------- MODULE Spec2Model ----------------------------
(***************************************************************************)
(* Return-control protocol handler and invocation matching / validation    *)
(* engine of agent-evaluation:                                             *)
(*   utils/return_control.py   the invocation matcher                      *)
(*   hooks/return_control.py   ReturnControlHook (pre/post evaluation)     *)
(*   targets/bedrock_agent/target.py   BedrockAgentTarget (controller)     *)
(*   test/test_suite.py        TestSuite (the configuration loader)        *)
(*                                                                         *)
(* Five specifications share the definitions below:                        *)
(*   SpecMatch   the matcher applied to bounded expected/actual records    *)
(*   SpecHook    one ReturnControlHook over a bounded test and trace       *)
(*   SpecTarget  one BedrockAgentTarget driving the transport              *)
(*   SpecStream  one hookless target reading an event stream of any shape  *)
(*   SpecSuite   TestSuite.load over a bounded configuration and filter    *)
(***************************************************************************)
EXTENDS Integers, Sequences, FiniteSets, TLC

VARIABLES
    \* ---- matcher harness (SpecMatch)
    m_expected,      \* the ExpectedInvocation handed to the matcher
    m_actual,        \* the actual record (normalised core, see LiveOf / TraceOf)
    m_pc,            \* "init" | "live" | "trace": which matcher has been applied
    m_result,        \* the outcome of that call
    \* ---- ReturnControlHook and its inputs (SpecHook, SpecTarget)
    h_steps,                 \* test.steps
    h_expected_invocations,  \* self.expected_invocations
    h_response_files,        \* self.response_files
    h_fs,                    \* the response files on disk, by resolved path
    h_trace,                 \* trace.steps handed to post_evaluate
    h_test_result,           \* the TestResult post_evaluate may mutate
    h_errors,                \* validation_errors of the post_evaluate call
    h_pre,                   \* pre_evaluate: "no" | "ok" | "raised"
    h_post,                  \* post_evaluate has run
    h_last,                  \* outcome of the last get_response_for_invocation
    \* ---- BedrockAgentTarget and the transport (SpecTarget)
    t_has_hook,      \* self._return_control_hook is not None
    t_session_id,    \* self._session_id
    t_trace_data,    \* self._trace_data
    t_citations,     \* self._citations
    t_pc,            \* "idle" | "awaiting" | "paused" | "done" | "raised"
    t_pending,       \* the returnControl event of the current stream, if any
    t_response,      \* the TargetResponse invoke returned
    t_ncalls,        \* invoke_agent calls made by this invoke
    t_last_call,     \* keyword arguments of the last invoke_agent call
    t_npauses,       \* returnControl events received by this invoke
    t_received,      \* text of every chunk consumed by this invoke, in order
    t_exc,           \* the exception invoke raised, "" if none
    t_call_error,    \* the exception the last invoke_agent call raised, "" if none
    \* ---- the transport's answer and a direct call (SpecStream)
    s_stream,        \* response["completion"] of the invoke_agent call
    s_direct,        \* arguments of a direct handle_return_control call, if made
    \* ---- TestSuite.load (SpecSuite)
    l_config,        \* config: the test configurations, in key order
    l_filter,        \* filter: the filter string (empty for None)
    l_pc,            \* "start" | "loaded" | "constructed" | "raised"
    l_tests,         \* the list _load_tests returned, if it returned
    l_exc,           \* the exception load raised, "" if none
    \* ---- two tests, each with its hook and its target, on one heap (SpecPair)
    p_heap,          \* the lists and dicts the instances created, by address
    p_hook,          \* per instance: the objects its hook's fields refer to
    p_target,        \* per instance: the objects its target's fields refer to
    p_steps,         \* per instance: test.steps
    p_fs,            \* the response files on disk, by resolved path
    p_pre,           \* per instance, pre_evaluate: "no" | "ok" | "raised"
    p_post,          \* per instance: post_evaluate has run
    p_ninvokes,      \* per instance: invokes made
    p_acting,        \* the instance whose operation ran last, 0 at the start
    p_out            \* what that operation returned

matchVars == <<m_expected, m_actual, m_pc, m_result>>
hookVars == <<h_steps, h_expected_invocations, h_response_files, h_fs, h_trace,
              h_test_result, h_errors, h_pre, h_post, h_last>>

targetVars == <<t_has_hook, t_session_id, t_trace_data, t_citations, t_pc,
                t_pending, t_response, t_ncalls, t_last_call, t_npauses,
                t_received, t_exc, t_call_error>>

streamVars == <<s_stream, s_direct>>
loaderVars == <<l_config, l_filter, l_pc, l_tests, l_exc>>

pairVars == <<p_heap, p_hook, p_target, p_steps, p_fs, p_pre, p_post,
              p_ninvokes, p_acting, p_out>>

vars == <<matchVars, hookVars, targetVars, streamVars, loaderVars, pairVars>>

----------------------------------------------------------------------------
(* Bounds *)

\* longest parameter list of an expected invocation or an actual record
MaxParams == 2
\* invokes each of the two side-by-side targets makes
MaxPairInvokes == 1
\* invoke is called again on a target that holds fewer trace fragments and
\* citations than this
MaxCarried == 2
\* most steps of a test
MaxSteps == 2
\* most steps of a trace
MaxTrace == 2
\* most chunk and trace events of one stream, before its pause or its end
MaxEvents == 1
\* most invocation inputs of one pause event
MaxInputs == 2
\* most events of a stream of any shape
MaxStream == 3
\* most step configurations of one configured test
MaxConfigSteps == 2
\* most characters of a filter string
MaxFilter == 3
\* most transport calls of one invoke
MaxCalls == 3

----------------------------------------------------------------------------
(* Python values *)

\* None, as returned by dict.get for an absent key
None == "<None>"

\* An optional sub-object is a sequence of length 0 (None / key absent) or 1.
Absent == <<>>
Some(x) == <<x>>
IsSet(opt) == Len(opt) > 0
Get(opt) == opt[1]

\* parameter values: the int 1, the str "1" and the bool True (True == 1 in Python)
IntVal(n) == [ty |-> "int", v |-> n]
StrVal(n) == [ty |-> "str", v |-> n]
BoolVal(n) == [ty |-> "bool", v |-> n]
\* values a test author declares, and values an agent may send
Values == {IntVal(1), StrVal(1)}
ActualValues == Values \cup {BoolVal(1)}

\* Python's == on parameter values: numbers compare by value, a str equals
\* only the same str
PyEq(x, y) ==
    IF x.ty = "str" \/ y.ty = "str"
    THEN x.ty = y.ty /\ x.v = y.v
    ELSE x.v = y.v

\* outcome of a call that returns a boolean or raises
Ret(b) == [exc |-> "", val |-> b]
Raise(e) == [exc |-> e, val |-> FALSE]

----------------------------------------------------------------------------
(* utils/return_control.py: the matcher *)

ParamNames(params) == {params[i].name : i \in 1..Len(params)}

\* a plausible slip: an earlier entry is kept and a later one ignored
LastIndex_first(params, n) ==
    CHOOSE i \in 1..Len(params) :
        /\ params[i].name = n
        /\ \A j \in 1..(i-1) : params[j].name # n

\* {p.name: p.value for p in params}: a later entry overwrites an earlier one
LastIndex(params, n) ==
    CHOOSE i \in 1..Len(params) :
        /\ params[i].name = n
        /\ \A j \in (i+1)..Len(params) : params[j].name # n

ParamDict(params) ==
    [n \in ParamNames(params) |-> params[LastIndex(params, n)].value]

\* dict == dict: the same keys, and == on each value
DictEq(d1, d2) ==
    /\ DOMAIN d1 = DOMAIN d2
    /\ \A k \in DOMAIN d1 : PyEq(d1[k], d2[k])

\* a plausible slip: the expectation need only be contained in the actual
match_parameters_subset(expected_params, actual_params) ==
    LET actual_param_dict == ParamDict(actual_params)
    IN  /\ DOMAIN expected_params \subseteq DOMAIN actual_param_dict
        /\ \A k \in DOMAIN expected_params :
               PyEq(actual_param_dict[k], expected_params[k])

\* a plausible slip: the actual list must also start with the expectation's
\* first name, so the order of the list matters
match_parameters_in_order(expected_params, actual_params) ==
    /\ DictEq(ParamDict(actual_params), expected_params)
    /\ Len(actual_params) > 0 =>
           actual_params[1].name = (CHOOSE n \in DOMAIN expected_params : TRUE)

match_parameters(expected_params, actual_params) ==
    LET actual_param_dict == ParamDict(actual_params)
    IN  DictEq(actual_param_dict, expected_params)

\* `actual` is the dict handed in: absent keys read as None (dict.get)
match_api_invocation(expected, actual) ==
    IF \/ actual.actionGroup # expected.actionGroup
       \/ actual.apiPath # expected.apiPath
       \/ actual.httpMethod # expected.httpMethod
    THEN FALSE
    ELSE match_parameters(ParamDict(expected.parameters), actual.parameters)

match_function_invocation(expected, actual) ==
    IF \/ actual.actionGroup # expected.actionGroup
       \/ actual.function # expected.function
    THEN FALSE
    ELSE match_parameters(ParamDict(expected.parameters), actual.parameters)

\* a plausible slip: an expectation that names no variant matches anything
match_invocation_vacuous(expected, actual) ==
    IF IsSet(expected.apiInvocationInput)
    THEN IF ~IsSet(actual.apiInvocationInput)
         THEN Raise("KeyError")
         ELSE Ret(match_api_invocation(Get(expected.apiInvocationInput),
                                       Get(actual.apiInvocationInput)))
    ELSE IF IsSet(expected.functionInvocationInput)
    THEN IF ~IsSet(actual.functionInvocationInput)
         THEN Raise("KeyError")
         ELSE Ret(match_function_invocation(Get(expected.functionInvocationInput),
                                            Get(actual.functionInvocationInput)))
    ELSE Ret(TRUE)

\* actual["apiInvocationInput"] on a dict without that key raises KeyError
match_invocation(expected, actual) ==
    IF IsSet(expected.apiInvocationInput)
    THEN IF ~IsSet(actual.apiInvocationInput)
         THEN Raise("KeyError")
         ELSE Ret(match_api_invocation(Get(expected.apiInvocationInput),
                                       Get(actual.apiInvocationInput)))
    ELSE IF IsSet(expected.functionInvocationInput)
    THEN IF ~IsSet(actual.functionInvocationInput)
         THEN Raise("KeyError")
         ELSE Ret(match_function_invocation(Get(expected.functionInvocationInput),
                                            Get(actual.functionInvocationInput)))
    ELSE Ret(FALSE)

\* a plausible slip: the verb is read under its live name, a key a trace
\* record does not have, so it reads as None
match_trace_invocation_unrenamed(expected, trace) ==
    IF IsSet(expected.apiInvocationInput)
    THEN match_api_invocation(Get(expected.apiInvocationInput),
                              [actionGroup |-> trace.actionGroupName,
                               apiPath     |-> trace.apiPath,
                               httpMethod  |-> None,
                               parameters  |-> trace.parameters])
    ELSE IF IsSet(expected.functionInvocationInput)
    THEN match_function_invocation(Get(expected.functionInvocationInput),
                                   [actionGroup |-> trace.actionGroupName,
                                    function    |-> trace.function,
                                    parameters  |-> trace.parameters])
    ELSE FALSE

\* the trace record's fields renamed into the live vocabulary; trace.get never raises
match_trace_invocation(expected, trace) ==
    IF IsSet(expected.apiInvocationInput)
    THEN LET actual_api_invocation ==
                 [actionGroup |-> trace.actionGroupName,
                  apiPath     |-> trace.apiPath,
                  httpMethod  |-> trace.verb,
                  parameters  |-> trace.parameters]
         IN  match_api_invocation(Get(expected.apiInvocationInput),
                                  actual_api_invocation)
    ELSE IF IsSet(expected.functionInvocationInput)
    THEN LET actual_function_invocation ==
                 [actionGroup |-> trace.actionGroupName,
                  function    |-> trace.function,
                  parameters  |-> trace.parameters]
         IN  match_function_invocation(Get(expected.functionInvocationInput),
                                       actual_function_invocation)
    ELSE FALSE

----------------------------------------------------------------------------
(* Bounded records for the matcher harness *)

SeqsUpTo(S, n) == UNION {[1..k -> S] : k \in 0..n}

\* test/return_control.py InvocationParameter: name, type, value
Names == {"a", "b"}
ExpectedParams == [name : Names, type : {"string"}, value : Values]
ActualParams(tag) == [name : Names, type : {tag}, value : ActualValues]
TypeTags == {"string", "integer"}

ExpectedParamLists == SeqsUpTo(ExpectedParams, MaxParams)
ActualParamLists == UNION {SeqsUpTo(ActualParams(t), MaxParams) : t \in TypeTags}

ApiInput(ag, path, method, params) ==
    [actionGroup |-> ag, apiPath |-> path, httpMethod |-> method,
     parameters |-> params]
FunctionInput(ag, fn, params) ==
    [actionGroup |-> ag, function |-> fn, parameters |-> params]

\* test/return_control.py ExpectedInvocation: two optional variants and a file
ExpectedInvocation(api, fn, file) ==
    [apiInvocationInput |-> api, functionInvocationInput |-> fn,
     invocation_response_file |-> file]

MatchExpectedSet ==
    { ExpectedInvocation(
          IF v \in {"api", "both"}
          THEN Some(ApiInput("ag1", "/p1", "GET", ps)) ELSE Absent,
          IF v \in {"function", "both"}
          THEN Some(FunctionInput("ag1", "f1", ps)) ELSE Absent,
          "r1.json")
      : v \in {"api", "function", "both", "neither"}, ps \in ExpectedParamLists }

\* An actual invocation, before it is laid out in the live or the trace shape:
\* kind says which variant the agent asked for.
MatchActualSet ==
    { [kind |-> "api", actionGroup |-> id[1], apiPath |-> id[2],
       httpMethod |-> id[3], function |-> None, parameters |-> ps]
      : id \in { <<"ag1", "/p1", "GET">>, <<"ag2", "/p1", "GET">>,
                 <<"ag1", "/p2", "GET">>, <<"ag1", "/p1", None>> },
        ps \in ActualParamLists }
    \cup
    { [kind |-> "function", actionGroup |-> id[1], apiPath |-> None,
       httpMethod |-> None, function |-> id[2], parameters |-> ps]
      : id \in { <<"ag1", "f1">>, <<"ag1", "f2">> },
        ps \in ActualParamLists }

\* the pending-request shape of a pause event's invocationInputs entry
LiveOf(a) ==
    IF a.kind = "api"
    THEN [apiInvocationInput |->
              Some(ApiInput(a.actionGroup, a.apiPath, a.httpMethod, a.parameters)),
          functionInvocationInput |-> Absent]
    ELSE [apiInvocationInput |-> Absent,
          functionInvocationInput |->
              Some(FunctionInput(a.actionGroup, a.function, a.parameters))]

\* the actionGroupInvocationInput record of an orchestration trace
TraceOf(a, executionType) ==
    [actionGroupName |-> a.actionGroup, apiPath |-> a.apiPath, verb |-> a.httpMethod,
     function |-> a.function, parameters |-> a.parameters,
     executionType |-> executionType]

----------------------------------------------------------------------------
(* The test, the trace and the pending inputs the hook is run on *)

Param(n, v) == [name |-> n, type |-> "string", value |-> v]

\* two expected invocations, one of each variant, each with its response file
E1 == ExpectedInvocation(
          Some(ApiInput("ag1", "/p1", "GET", <<Param("a", StrVal(1))>>)),
          Absent, "r1.json")
F1 == ExpectedInvocation(
          Absent,
          Some(FunctionInput("ag1", "f1", <<Param("a", StrVal(1))>>)), "r2.json")
HookExpected == {E1, F1}
\* a second API-shaped expectation, the one A3 answers to
E2 == ExpectedInvocation(
          Some(ApiInput("ag2", "/p1", "GET", <<Param("a", StrVal(1))>>)),
          Absent, "r2.json")

\* an expectation that names no variant
N0 == ExpectedInvocation(Absent, Absent, "r1.json")

\* test/test.py steps: List[Union[str, TestStep]]
PlainStep == [kind |-> "str", step |-> "s", expected_invocation |-> Absent]
TestStep(text, expected) ==
    [kind |-> "TestStep", step |-> text, expected_invocation |-> expected]
StepSet == {PlainStep, TestStep("s", Absent)}
               \cup {TestStep("s", Some(e)) : e \in HookExpected}
StepLists == SeqsUpTo(StepSet, MaxSteps)

\* actual invocations of the agent: the one E1 expects, the one F1 expects,
\* and one nobody expects
A1 == [kind |-> "api", actionGroup |-> "ag1", apiPath |-> "/p1",
       httpMethod |-> "GET", function |-> None,
       parameters |-> <<Param("a", StrVal(1))>>]
A2 == [kind |-> "function", actionGroup |-> "ag1", apiPath |-> None,
       httpMethod |-> None, function |-> "f1",
       parameters |-> <<Param("a", StrVal(1))>>]
A3 == [kind |-> "api", actionGroup |-> "ag2", apiPath |-> "/p1",
       httpMethod |-> "GET", function |-> None,
       parameters |-> <<Param("a", StrVal(1))>>]
Actuals == {A1, A2, A3}
LiveInputs == {LiveOf(a) : a \in Actuals}

\* one event of data['bedrock_agent_trace']
InvocationEvent(rec) ==
    [orchestrationTrace |->
        Some([invocationInput |-> Some([actionGroupInvocationInput |-> Some(rec)])])]
RationaleEvent == [orchestrationTrace |-> Some([invocationInput |-> Absent])]
TraceEvents ==
    {InvocationEvent(TraceOf(a, "RETURN_CONTROL")) : a \in Actuals}
        \cup {InvocationEvent(TraceOf(A1, "LAMBDA")), RationaleEvent}

\* one entry of trace.steps: no 'data', or data carrying a list of trace events
NoData == [data |-> Absent]
StepData(events) == [data |-> Some([bedrock_agent_trace |-> events])]
TraceStepSet == {NoData} \cup {StepData(<<ev>>) : ev \in TraceEvents}
Traces == SeqsUpTo(TraceStepSet, MaxTrace)

\* response files: path as written in the test, resolved against base_dir
Files == {"r1.json", "r2.json"}
base_dir == "base"
JoinPath(dir, file_path) == <<dir, file_path>>
ResolvedPaths == {JoinPath(base_dir, f) : f \in Files}
\* the disk: the content of each resolved path, None where no file exists
Disks ==
    { [p \in ResolvedPaths |-> IF p[2] \in present
                               THEN (IF p[2] = "r1.json" THEN c1 ELSE "c2")
                               ELSE None]
      : present \in {Files, {"r1.json"}}, c1 \in {"c1", ""} }

\* TestResult as the evaluator left it
Message(kind, step_index, expected, invocations) ==
    [kind |-> kind, step_index |-> step_index, expected |-> expected,
     invocations |-> invocations]
EvaluatorResults ==
    { [passed |-> TRUE, result |-> "PASSED",
       reasoning |-> <<Message("evaluator", 0, Absent, <<>>)>>],
      [passed |-> FALSE, result |-> "FAILED",
       reasoning |-> <<Message("evaluator", 0, Absent, <<>>)>>] }

----------------------------------------------------------------------------
(* hooks/return_control.py: ReturnControlHook *)

\* a plausible slip: the index counts the steps that declare an expectation
ExtractExpected_ordinal(steps) ==
    LET idx == SelectSeq([i \in 1..Len(steps) |-> i],
                   LAMBDA i : steps[i].kind = "TestStep"
                                 /\ IsSet(steps[i].expected_invocation))
    IN  [k \in 1..Len(idx) |->
            [step_index |-> k - 1,
             invocation |-> Get(steps[idx[k]].expected_invocation)]]

\* __init__: for i, step in enumerate(test.steps): a TestStep with an
\* expected invocation is recorded with its position i (from 0)
ExtractExpected(steps) ==
    LET idx == SelectSeq([i \in 1..Len(steps) |-> i],
                   LAMBDA i : steps[i].kind = "TestStep"
                                 /\ IsSet(steps[i].expected_invocation))
    IN  [k \in 1..Len(idx) |->
            [step_index |-> idx[k] - 1,
             invocation |-> Get(steps[idx[k]].expected_invocation)]]

\* utils/return_control.py load_response_file: the content, or None for
\* FileNotFoundError
load_response_file(fs, file_path, dir) == fs[JoinPath(dir, file_path)]

\* a plausible slip: only the file of the first expectation is loaded
LoadedUpTo_first(expected, fs, cache, n) ==
    IF n = 0 THEN cache
    ELSE LET file == expected[1].invocation.invocation_response_file
         IN  [cache EXCEPT ![file] = fs[JoinPath(base_dir, file)]]

\* pre_evaluate's loop over the first n expectations: the cache so far
RECURSIVE LoadedUpTo(_, _, _, _)
LoadedUpTo(expected, fs, cache, n) ==
    IF n = 0 THEN cache
    ELSE LET before == LoadedUpTo(expected, fs, cache, n - 1)
             file == expected[n].invocation.invocation_response_file
         IN  [before EXCEPT ![file] = load_response_file(fs, file, base_dir)]

\* the first expectation whose file is missing, 0 if none
FirstMissing(expected, fs) ==
    LET missing == {i \in 1..Len(expected) :
                      load_response_file(fs,
                          expected[i].invocation.invocation_response_file,
                          base_dir) = None}
    IN  IF missing = {} THEN 0
        ELSE CHOOSE i \in missing : \A j \in missing : i <= j

\* a plausible slip: the execution type of a record is not looked at
EventInvocations_any_type(ev) ==
    IF /\ IsSet(ev.orchestrationTrace)
       /\ IsSet(Get(ev.orchestrationTrace).invocationInput)
       /\ IsSet(Get(Get(ev.orchestrationTrace).invocationInput)
                    .actionGroupInvocationInput)
    THEN <<Get(Get(Get(ev.orchestrationTrace).invocationInput)
                   .actionGroupInvocationInput)>>
    ELSE <<>>

\* post_evaluate, first loop: the actionGroupInvocationInput records of the
\* trace whose executionType is RETURN_CONTROL, in trace order
EventInvocations(ev) ==
    IF /\ IsSet(ev.orchestrationTrace)
       /\ IsSet(Get(ev.orchestrationTrace).invocationInput)
       /\ IsSet(Get(Get(ev.orchestrationTrace).invocationInput)
                    .actionGroupInvocationInput)
    THEN LET invocation ==
                 Get(Get(Get(ev.orchestrationTrace).invocationInput)
                         .actionGroupInvocationInput)
         IN  IF invocation.executionType = "RETURN_CONTROL"
             THEN <<invocation>> ELSE <<>>
    ELSE <<>>

RECURSIVE EventsInvocations(_)
EventsInvocations(events) ==
    IF events = <<>> THEN <<>>
    ELSE EventInvocations(Head(events)) \o EventsInvocations(Tail(events))

RECURSIVE ReturnControlInvocations(_)
ReturnControlInvocations(trace_data) ==
    IF trace_data = <<>> THEN <<>>
    ELSE (IF IsSet(Head(trace_data).data)
          THEN EventsInvocations(Get(Head(trace_data).data).bedrock_agent_trace)
          ELSE <<>>)
         \o ReturnControlInvocations(Tail(trace_data))

\* post_evaluate, inner loop: the position of the first record of the list
\* that matches, 0 if none does (the loop does not skip matched records)
FirstMatch(invocation, rcs) ==
    LET hits == {j \in 1..Len(rcs) : match_trace_invocation(invocation, rcs[j])}
    IN  IF hits = {} THEN 0 ELSE CHOOSE j \in hits : \A k \in hits : j <= k

\* matched_invocations: the records are distinct objects, so id() is the position
MatchedInvocations(expected, rcs) ==
    {FirstMatch(expected[i].invocation, rcs) : i \in 1..Len(expected)} \ {0}

NotFoundErrors(expected, rcs) ==
    LET idx == SelectSeq([i \in 1..Len(expected) |-> i],
                   LAMBDA i : FirstMatch(expected[i].invocation, rcs) = 0)
    IN  [k \in 1..Len(idx) |->
            Message("not_found", expected[idx[k]].step_index,
                    Some(expected[idx[k]].invocation), <<>>)]

\* a plausible slip: only the first unmatched record is reported
UnexpectedInvocations_first(expected, rcs) ==
    LET all == SelectSeq([j \in 1..Len(rcs) |-> j],
                   LAMBDA j : j \notin MatchedInvocations(expected, rcs))
    IN  IF all = <<>> THEN <<>> ELSE <<rcs[all[1]]>>

UnexpectedInvocations(expected, rcs) ==
    LET idx == SelectSeq([j \in 1..Len(rcs) |-> j],
                   LAMBDA j : j \notin MatchedInvocations(expected, rcs))
    IN  [k \in 1..Len(idx) |-> rcs[idx[k]]]

\* a plausible slip: the unexpected-invocations check runs before the loop
\* over the expectations
ValidationErrors_unexpected_first(expected, rcs) ==
    LET unexpected_invocations == UnexpectedInvocations(expected, rcs)
    IN  (IF unexpected_invocations # <<>>
         THEN <<Message("unexpected", Len(unexpected_invocations), Absent,
                        unexpected_invocations)>>
         ELSE <<>>)
        \o NotFoundErrors(expected, rcs)

ValidationErrors(expected, rcs) ==
    LET unexpected_invocations == UnexpectedInvocations(expected, rcs)
    IN  NotFoundErrors(expected, rcs)
        \o (IF unexpected_invocations # <<>>
            THEN <<Message("unexpected", Len(unexpected_invocations), Absent,
                           unexpected_invocations)>>
            ELSE <<>>)

\* "\n".join(validation_errors)
Newline == Message("newline", 0, Absent, <<>>)
RECURSIVE JoinLines(_)
JoinLines(msgs) ==
    IF Len(msgs) <= 1 THEN msgs
    ELSE <<Head(msgs), Newline>> \o JoinLines(Tail(msgs))

\* get_response_for_invocation: the file of the first expectation that
\* matches; a KeyError of match_invocation propagates
RECURSIVE ResponseFrom(_, _, _, _)
ResponseFrom(expected, cache, invocation_data, i) ==
    IF i > Len(expected) THEN [exc |-> "", val |-> None]
    ELSE LET m == match_invocation(expected[i].invocation, invocation_data)
         IN  IF m.exc # "" THEN [exc |-> m.exc, val |-> None]
             ELSE IF m.val
             THEN [exc |-> "",
                   val |-> cache[expected[i].invocation.invocation_response_file]]
             ELSE ResponseFrom(expected, cache, invocation_data, i + 1)

get_response_for_invocation(expected, cache, invocation_data) ==
    ResponseFrom(expected, cache, invocation_data, 1)

\* ---- the hook's operations as actions

EmptyCache == [f \in Files |-> None]

\* the hook right after ReturnControlHook(test, base_dir)
HookConstructed(steps) ==
    /\ h_steps = steps
    /\ h_expected_invocations = ExtractExpected(steps)
    /\ h_response_files = EmptyCache
    /\ h_errors = <<>>
    /\ h_pre = "no"
    /\ h_post = FALSE
    /\ h_last = [exc |-> "", val |-> None]

PreEvaluate ==
    /\ h_pre = "no" /\ ~h_post
    /\ LET n == FirstMissing(h_expected_invocations, h_fs)
       IN  IF n = 0
           THEN /\ h_response_files' =
                       LoadedUpTo(h_expected_invocations, h_fs, h_response_files,
                                  Len(h_expected_invocations))
                /\ h_pre' = "ok"
           ELSE \* FileNotFoundError is logged and raised again
                /\ h_response_files' =
                       LoadedUpTo(h_expected_invocations, h_fs, h_response_files,
                                  n - 1)
                /\ h_pre' = "raised"
    /\ UNCHANGED <<h_steps, h_expected_invocations, h_fs, h_trace, h_test_result,
                   h_errors, h_post, h_last>>

\* a plausible slip: a served response is popped from the cache
GetResponseForInvocation_consuming ==
    /\ h_pre # "raised" /\ ~h_post
    /\ \E invocation_data \in LiveInputs :
           /\ h_last' = get_response_for_invocation(h_expected_invocations,
                                                    h_response_files, invocation_data)
           /\ h_response_files' =
                  [f \in Files |-> IF h_response_files[f] = h_last'.val
                                   THEN None ELSE h_response_files[f]]
    /\ UNCHANGED <<h_steps, h_expected_invocations, h_fs,
                   h_trace, h_test_result, h_errors, h_pre, h_post>>

GetResponseForInvocation ==
    /\ h_pre # "raised" /\ ~h_post
    /\ \E invocation_data \in LiveInputs :
           h_last' = get_response_for_invocation(h_expected_invocations,
                                                 h_response_files, invocation_data)
    /\ UNCHANGED <<h_steps, h_expected_invocations, h_response_files, h_fs,
                   h_trace, h_test_result, h_errors, h_pre, h_post>>

\* a plausible slip: a matched expectation is ticked off by clearing it on
\* the step that declared it
PostEvaluate_clearing ==
    /\ h_pre # "raised" /\ ~h_post
    /\ h_post' = TRUE
    /\ IF h_expected_invocations = <<>>
       THEN UNCHANGED <<h_test_result, h_errors>>
       ELSE LET validation_errors ==
                    ValidationErrors(h_expected_invocations,
                                     ReturnControlInvocations(h_trace))
            IN  /\ h_errors' = validation_errors
                /\ IF validation_errors # <<>>
                   THEN h_test_result' =
                            [passed |-> FALSE,
                             result |-> "RETURN_CONTROL_VALIDATION_FAILED",
                             reasoning |-> JoinLines(validation_errors)]
                   ELSE UNCHANGED h_test_result
    /\ h_steps' =
           [p \in 1..Len(h_steps) |->
               IF \E i \in 1..Len(h_expected_invocations) :
                      /\ h_expected_invocations[i].step_index = p - 1
                      /\ FirstMatch(h_expected_invocations[i].invocation,
                                    ReturnControlInvocations(h_trace)) # 0
               THEN [h_steps[p] EXCEPT !.expected_invocation = Absent]
               ELSE h_steps[p]]
    /\ UNCHANGED <<h_expected_invocations, h_response_files, h_fs,
                   h_trace, h_pre, h_last>>

\* a plausible slip: a validation without errors records a pass
PostEvaluate_passing ==
    /\ h_pre # "raised" /\ ~h_post
    /\ h_post' = TRUE
    /\ IF h_expected_invocations = <<>>
       THEN UNCHANGED <<h_test_result, h_errors>>
       ELSE LET validation_errors ==
                    ValidationErrors(h_expected_invocations,
                                     ReturnControlInvocations(h_trace))
            IN  /\ h_errors' = validation_errors
                /\ IF validation_errors # <<>>
                   THEN h_test_result' =
                            [passed |-> FALSE,
                             result |-> "RETURN_CONTROL_VALIDATION_FAILED",
                             reasoning |-> JoinLines(validation_errors)]
                   ELSE h_test_result' =
                            [passed |-> TRUE, result |-> "PASSED",
                             reasoning |-> <<>>]
    /\ UNCHANGED <<h_steps, h_expected_invocations, h_response_files, h_fs,
                   h_trace, h_pre, h_last>>

PostEvaluate ==
    /\ h_pre # "raised" /\ ~h_post
    /\ h_post' = TRUE
    /\ IF h_expected_invocations = <<>>
       THEN UNCHANGED <<h_test_result, h_errors>>
       ELSE LET validation_errors ==
                    ValidationErrors(h_expected_invocations,
                                     ReturnControlInvocations(h_trace))
            IN  /\ h_errors' = validation_errors
                /\ IF validation_errors # <<>>
                   THEN h_test_result' =
                            [passed |-> FALSE,
                             result |-> "RETURN_CONTROL_VALIDATION_FAILED",
                             reasoning |-> JoinLines(validation_errors)]
                   ELSE UNCHANGED h_test_result
    /\ UNCHANGED <<h_steps, h_expected_invocations, h_response_files, h_fs,
                   h_trace, h_pre, h_last>>

\* the hook variables of a specification that runs no hook
NoHook ==
    /\ HookConstructed(<<>>)
    /\ h_fs = [p \in ResolvedPaths |-> None]
    /\ h_trace = <<>>
    /\ h_test_result = [passed |-> TRUE, result |-> "PASSED", reasoning |-> <<>>]

----------------------------------------------------------------------------
(* The transport: event streams of invoke_agent *)

\* the payload of the n-th chunk of a turn: one ASCII byte for odd n, a
\* two-byte UTF-8 sequence and a citation for even n
ChunkBytes(n) == IF n % 2 = 1 THEN <<64 + n>> ELSE <<195, 160 + n>>
Chunk(n) ==
    [bytes |-> ChunkBytes(n),
     citations |-> IF n % 2 = 0 THEN Some(n) ELSE Absent]

\* a plausible slip: every byte is taken for a character
Decode_bytewise(bytes) == bytes

\* bytes.decode(): UTF-8, one or two bytes per character
RECURSIVE Decode(_)
Decode(bytes) ==
    IF bytes = <<>> THEN <<>>
    ELSE IF Head(bytes) < 128
    THEN <<Head(bytes)>> \o Decode(Tail(bytes))
    ELSE <<(Head(bytes) % 32) * 64 + (bytes[2] % 64)>> \o Decode(Tail(Tail(bytes)))

\* one event of response["completion"]: a dict with some of the three keys
Event(chunk, trace, returnControl) ==
    [chunk |-> chunk, trace |-> trace, returnControl |-> returnControl]
ChunkEvent(n) == Event(Some(Chunk(n)), Absent, Absent)
TraceEvent(n) == Event(Absent, Some([trace |-> [fragment |-> n]]), Absent)
PauseEvent(rc) == Event(Absent, Absent, Some(rc))

\* the event kinds of a stream before its pause or its end
BodyKinds == SeqsUpTo({"chunk", "trace"}, MaxEvents)

\* the body of a stream, its chunks and trace fragments numbered on from
\* those already delivered
RECURSIVE Body(_, _, _)
Body(kinds, nchunks, ntraces) ==
    IF kinds = <<>> THEN <<>>
    ELSE IF Head(kinds) = "chunk"
    THEN <<ChunkEvent(nchunks + 1)>> \o Body(Tail(kinds), nchunks + 1, ntraces)
    ELSE <<TraceEvent(ntraces + 1)>> \o Body(Tail(kinds), nchunks, ntraces + 1)

\* the pause events: a fresh invocationId and one or more pending inputs
InputLists == SeqsUpTo(LiveInputs, MaxInputs) \ {<<>>}
ReturnControl(id, inputs) == [invocationId |-> id, invocationInputs |-> inputs]

----------------------------------------------------------------------------
(* targets/bedrock_agent/target.py: BedrockAgentTarget *)

\* handle_response, the loop over the stream: the local completion and the
\* two accumulators after the events consumed, and the pause that ended the
\* loop, if one did. An event is handled by the first key it carries.
RECURSIVE Consume(_, _, _, _)
Consume(stream, completion, trace_data, citations) ==
    IF stream = <<>>
    THEN [completion |-> completion, trace_data |-> trace_data,
          citations |-> citations, return_control |-> Absent]
    ELSE LET event == Head(stream)
         IN  IF IsSet(event.chunk)
             THEN Consume(Tail(stream),
                          completion \o Decode(Get(event.chunk).bytes),
                          trace_data,
                          IF IsSet(Get(event.chunk).citations)
                          THEN Append(citations, Get(Get(event.chunk).citations))
                          ELSE citations)
             ELSE IF IsSet(event.trace)
             THEN Consume(Tail(stream), completion,
                          Append(trace_data, Get(event.trace).trace), citations)
             ELSE IF IsSet(event.returnControl)
             THEN [completion |-> completion, trace_data |-> trace_data,
                   citations |-> citations,
                   return_control |-> event.returnControl]
             ELSE Consume(Tail(stream), completion, trace_data, citations)

\* a plausible slip: the function result is wrapped like the API result
FunctionResult_lowercase(input, mock_response) ==
    [apiResult |-> Absent,
     functionResult |-> Some([actionGroup |-> input.actionGroup,
                              function |-> input.function,
                              responseBody |-> [text |-> [body |-> mock_response]]])]

\* handle_return_control, the result built for one matched input
ApiResult(input, mock_response) ==
    [apiResult |-> Some([actionGroup |-> input.actionGroup,
                         apiPath |-> input.apiPath,
                         httpMethod |-> input.httpMethod,
                         responseBody |-> [text |-> [body |-> mock_response]]]),
     functionResult |-> Absent]
FunctionResult(input, mock_response) ==
    [apiResult |-> Absent,
     functionResult |-> Some([actionGroup |-> input.actionGroup,
                              function |-> input.function,
                              responseBody |-> [TEXT |-> [body |-> mock_response]]])]
EmptyResult == [apiResult |-> Absent, functionResult |-> Absent]

InvocationResult(invocation_input, mock_response) ==
    IF IsSet(invocation_input.apiInvocationInput)
    THEN ApiResult(Get(invocation_input.apiInvocationInput), mock_response)
    ELSE IF IsSet(invocation_input.functionInvocationInput)
    THEN FunctionResult(Get(invocation_input.functionInvocationInput), mock_response)
    ELSE EmptyResult

\* handle_return_control, the loop over invocation_inputs: the results, or the
\* exception get_response_for_invocation raised
RECURSIVE InvocationResults(_, _, _, _)
InvocationResults(expected, cache, invocation_inputs, results) ==
    IF invocation_inputs = <<>> THEN [exc |-> "", results |-> results]
    ELSE LET invocation_input == Head(invocation_inputs)
             mock_response ==
                 get_response_for_invocation(expected, cache, invocation_input)
         IN  IF mock_response.exc # ""
             THEN [exc |-> mock_response.exc, results |-> results]
             ELSE IF mock_response.val = None
             THEN InvocationResults(expected, cache, Tail(invocation_inputs), results)
             ELSE InvocationResults(expected, cache, Tail(invocation_inputs),
                      Append(results,
                             InvocationResult(invocation_input, mock_response.val)))

\* TargetResponse: data names the keys of the dict; 'bedrock_agent_trace' and
\* 'bedrock_agent_citations' hold the accumulator lists themselves
TargetResponse(response, keys) == [response |-> response, data |-> keys]
NoResponse == TargetResponse(<<>>, {})
Unhandled == TargetResponse(<<>>, {"return_control_handled"})

\* sessionState of an invoke_agent call: the keys it may carry
SessionState(attributes, invocation_id, results) ==
    [sessionAttributes |-> attributes, invocationId |-> invocation_id,
     returnControlInvocationResults |-> results]
\* self._session_state, as __init__ built it from the session attributes
session_state == SessionState(Some("attrs"), Absent, Absent)
\* keyword arguments of an invoke_agent call
Call(session_id, input_text, state) ==
    [sessionId |-> session_id, inputText |-> input_text, sessionState |-> state]
NoCall == Call(None, Absent, SessionState(Absent, Absent, Absent))

\* the target right after BedrockAgentTarget(...)
TargetConstructed ==
    /\ t_session_id = "uuid"
    /\ t_trace_data = <<>>
    /\ t_citations = <<>>
    /\ t_pc = "idle"
    /\ t_pending = Absent
    /\ t_response = NoResponse
    /\ t_ncalls = 0
    /\ t_last_call = NoCall
    /\ t_npauses = 0
    /\ t_received = <<>>
    /\ t_exc = ""
    /\ t_call_error = ""

\* invoke, up to the transport's answer
Invoke ==
    /\ t_pc = "idle"
    /\ \E prompt \in {"prompt"} :
           t_last_call' = Call(t_session_id, Some(prompt), session_state)
    /\ t_ncalls' = 1
    /\ t_pc' = "awaiting"
    /\ UNCHANGED <<t_has_hook, t_session_id, t_trace_data, t_citations,
                   t_pending, t_response, t_npauses, t_received, t_exc,
                   t_call_error>>

\* handle_response: the stream the transport answered with is read to its
\* pause or to its end
Receive(stream) ==
    /\ t_pc = "awaiting"
    /\ LET r == Consume(stream, <<>>, t_trace_data, t_citations)
       IN  /\ t_trace_data' = r.trace_data
           /\ t_citations' = r.citations
           /\ t_received' = t_received \o r.completion
           /\ t_pending' = r.return_control
           /\ IF IsSet(r.return_control)
              THEN /\ t_pc' = "paused"
                   /\ t_npauses' = t_npauses + 1
                   /\ UNCHANGED t_response
              ELSE /\ t_pc' = "done"
                   /\ t_response' =
                          TargetResponse(r.completion,
                              {"bedrock_agent_trace"} \cup
                                  (IF r.citations # <<>>
                                   THEN {"bedrock_agent_citations"} ELSE {}))
                   /\ UNCHANGED t_npauses
    /\ UNCHANGED <<t_has_hook, t_session_id, t_ncalls, t_last_call, t_exc,
                   t_call_error>>

\* the transport answers with a stream that runs to its end
StreamEnds ==
    \E kinds \in BodyKinds :
        Receive(Body(kinds, Len(t_received), Len(t_trace_data)))

\* the transport answers with a stream that a pause event ends
StreamPauses ==
    /\ t_ncalls < MaxCalls
    /\ \E kinds \in BodyKinds, inputs \in InputLists :
           Receive(Body(kinds, Len(t_received), Len(t_trace_data))
                       \o <<PauseEvent(ReturnControl(t_npauses + 1, inputs))>>)

\* a plausible slip: the results are added to the session state of the
\* prompt, and the invocation id is left out
ResumeCall_stale(return_control, invocation_results) ==
    Call(t_session_id, Absent,
         SessionState(Some("attrs"), Absent, Some(invocation_results)))

\* handle_return_control, the resumption call: no inputText, and a session
\* state of the pause's invocation id and the results
ResumeCall(return_control, invocation_results) ==
    Call(t_session_id, Absent,
         SessionState(Absent, Some(return_control.invocationId),
                      Some(invocation_results)))

\* a plausible slip: without a hook the pause is passed over and the text
\* read so far is returned as the response
HandleReturnControl_continue ==
    /\ t_pc = "paused"
    /\ LET return_control == Get(t_pending)
           r == InvocationResults(h_expected_invocations, h_response_files,
                                  return_control.invocationInputs, <<>>)
       IN  IF ~t_has_hook
           THEN /\ t_pc' = "done"
                /\ t_response' = TargetResponse(t_received, {"bedrock_agent_trace"})
                /\ UNCHANGED <<t_ncalls, t_last_call, t_exc>>
           ELSE IF r.exc # ""
           THEN \* the KeyError leaves handle_response; invoke logs it and raises it
                /\ t_pc' = "raised"
                /\ t_exc' = r.exc
                /\ UNCHANGED <<t_response, t_ncalls, t_last_call>>
           ELSE IF r.results = <<>>
           THEN /\ t_pc' = "done"
                /\ t_response' = Unhandled
                /\ UNCHANGED <<t_ncalls, t_last_call, t_exc>>
           ELSE /\ t_pc' = "awaiting"
                /\ t_ncalls' = t_ncalls + 1
                /\ t_last_call' = ResumeCall(return_control, r.results)
                /\ UNCHANGED <<t_response, t_exc>>
    /\ UNCHANGED <<t_has_hook, t_session_id, t_trace_data, t_citations,
                   t_pending, t_npauses, t_received, t_call_error>>

HandleReturnControl ==
    /\ t_pc = "paused"
    /\ LET return_control == Get(t_pending)
           r == InvocationResults(h_expected_invocations, h_response_files,
                                  return_control.invocationInputs, <<>>)
       IN  IF ~t_has_hook
           THEN /\ t_pc' = "done"
                /\ t_response' = Unhandled
                /\ UNCHANGED <<t_ncalls, t_last_call, t_exc>>
           ELSE IF r.exc # ""
           THEN \* the KeyError leaves handle_response; invoke logs it and raises it
                /\ t_pc' = "raised"
                /\ t_exc' = r.exc
                /\ UNCHANGED <<t_response, t_ncalls, t_last_call>>
           ELSE IF r.results = <<>>
           THEN /\ t_pc' = "done"
                /\ t_response' = Unhandled
                /\ UNCHANGED <<t_ncalls, t_last_call, t_exc>>
           ELSE /\ t_pc' = "awaiting"
                /\ t_ncalls' = t_ncalls + 1
                /\ t_last_call' = ResumeCall(return_control, r.results)
                /\ UNCHANGED <<t_response, t_exc>>
    /\ UNCHANGED <<t_has_hook, t_session_id, t_trace_data, t_citations,
                   t_pending, t_npauses, t_received, t_call_error>>

\* a plausible slip: each invoke starts from empty accumulators
InvokeAgain_resetting ==
    /\ t_pc = "done"
    /\ Len(t_trace_data) + Len(t_citations) < MaxCarried
    /\ \E prompt \in {"prompt"} :
           t_last_call' = Call(t_session_id, Some(prompt), session_state)
    /\ t_ncalls' = 1
    /\ t_pc' = "awaiting"
    /\ t_pending' = Absent
    /\ t_response' = NoResponse
    /\ t_npauses' = 0
    /\ t_received' = <<>>
    /\ t_trace_data' = <<>>
    /\ t_citations' = <<>>
    /\ UNCHANGED <<t_has_hook, t_session_id, t_exc, t_call_error>>

\* invoke called again on a target whose earlier invoke has returned: the
\* call is made with the same session id and session state; nothing in
\* invoke or handle_response empties self._trace_data or self._citations
InvokeAgain ==
    /\ t_pc = "done"
    /\ Len(t_trace_data) + Len(t_citations) < MaxCarried
    /\ \E prompt \in {"prompt"} :
           t_last_call' = Call(t_session_id, Some(prompt), session_state)
    /\ t_ncalls' = 1
    /\ t_pc' = "awaiting"
    /\ t_pending' = Absent
    /\ t_response' = NoResponse
    /\ t_npauses' = 0
    /\ t_received' = <<>>
    /\ UNCHANGED <<t_has_hook, t_session_id, t_trace_data, t_citations, t_exc,
                   t_call_error>>

\* errors the transport client raises
ClientErrors == {"ThrottlingException", "EndpointConnectionError"}

\* a plausible slip: the failure is logged and an empty response returned
InvokeAgentRaises_suppressed ==
    /\ t_pc = "awaiting"
    /\ \E e \in ClientErrors : t_call_error' = e
    /\ t_pc' = "done"
    /\ t_response' = TargetResponse(<<>>, {"bedrock_agent_trace"})
    /\ UNCHANGED <<t_has_hook, t_session_id, t_trace_data, t_citations,
                   t_pending, t_ncalls, t_last_call, t_npauses, t_received,
                   t_exc>>

\* the invoke_agent call raises instead of answering: the first call is made
\* outside invoke's try and its error leaves invoke directly; a resumption
\* call is made under handle_response, whose error invoke logs and raises
\* again; neither path calls the transport again or builds a response
InvokeAgentRaises ==
    /\ t_pc = "awaiting"
    /\ \E e \in ClientErrors :
           /\ t_call_error' = e
           /\ t_exc' = e
    /\ t_pc' = "raised"
    /\ UNCHANGED <<t_has_hook, t_session_id, t_trace_data, t_citations,
                   t_pending, t_response, t_ncalls, t_last_call, t_npauses,
                   t_received>>

\* the target variables of a specification that runs no target
NoTarget == t_has_hook = FALSE /\ TargetConstructed

----------------------------------------------------------------------------
(* Streams of any shape, and a direct call of handle_return_control *)

\* what one event of a stream carries
EventKinds == {"chunk", "trace", "chunk+trace", "pause", "chunk+pause"}

\* the pause event of these streams
Pause1 == ReturnControl(1, <<LiveOf(A1)>>)

\* the i-th event of a stream: its chunk and its trace fragment are numbered i
StreamEvent(kind, i) ==
    Event(IF kind \in {"chunk", "chunk+trace", "chunk+pause"}
          THEN Some(Chunk(i)) ELSE Absent,
          IF kind \in {"trace", "chunk+trace"}
          THEN Some([trace |-> [fragment |-> i]]) ELSE Absent,
          IF kind \in {"pause", "chunk+pause"} THEN Some(Pause1) ELSE Absent)

Streams ==
    {[i \in 1..Len(kinds) |-> StreamEvent(kinds[i], i)] :
        kinds \in SeqsUpTo(EventKinds, MaxStream)}

\* results a caller supplies for a pause event
UserInputs == {<<>>, <<[apiResult |-> "json"]>>}

\* handle_response reads the stream the transport answered with
Deliver ==
    /\ ~IsSet(s_direct)
    /\ Receive(s_stream)
    /\ UNCHANGED streamVars

\* handle_return_control(return_control, results) called by the owner of the
\* target: the method takes the pause event only, so the call raises
\* TypeError before its body runs
DirectHandleReturnControl ==
    /\ t_pc \in {"idle", "done"} /\ ~IsSet(s_direct)
    /\ \E user_inputs \in UserInputs :
           s_direct' = Some([return_control |-> Pause1,
                             invocation_results |-> user_inputs])
    /\ t_pc' = "raised"
    /\ t_exc' = "TypeError"
    /\ UNCHANGED <<s_stream, t_has_hook, t_session_id, t_trace_data, t_citations,
                   t_pending, t_response, t_ncalls, t_last_call, t_npauses,
                   t_received,
                   t_call_error>>

\* the stream variables of a specification that fixes no stream
NoStream == s_stream = <<>> /\ s_direct = Absent

----------------------------------------------------------------------------
(* Two tests side by side: the objects their hooks and targets create *)

Instances == {1, 2}

\* the mutable objects an instance creates in __init__
Fields == <<"expected_invocations", "response_files", "trace_data", "citations">>

\* a plausible slip: the list or dict is a class attribute (or a mutable
\* default argument), one object for every instance
NewObject_shared(i, field) == CHOOSE k \in 1..Len(Fields) : Fields[k] = field

\* `self.<field> = []` or `= {}` in __init__: the literal is evaluated at each
\* construction, so each instance gets an object of its own
NewObject(i, field) ==
    (i - 1) * Len(Fields) + (CHOOSE k \in 1..Len(Fields) : Fields[k] = field)

\* the heap after ReturnControlHook(test_i, base_dir) and BedrockAgentTarget(...)
\* of instance i have run
Constructed(heap, i, steps) ==
    LET emptied ==
            [a \in DOMAIN heap |->
                IF a = NewObject(i, "response_files") THEN EmptyCache
                ELSE IF a \in {NewObject(i, "expected_invocations"),
                               NewObject(i, "trace_data"),
                               NewObject(i, "citations")} THEN <<>>
                ELSE heap[a]]
    IN  [emptied EXCEPT ![NewObject(i, "expected_invocations")] =
                            @ \o ExtractExpected(steps)]

\* the tests of the two instances
PairTests ==
    { <<TestStep("s", Some(E1))>>,
      <<PlainStep, TestStep("s", Some(F1))>>,
      <<TestStep("s", Some(E1)), TestStep("s", Some(F1))>> }

\* hook.pre_evaluate of instance i
PairPreEvaluate(i) ==
    /\ p_pre[i] = "no" /\ ~p_post[i]
    /\ LET expected == p_heap[p_hook[i].expected_invocations]
           n == FirstMissing(expected, p_fs)
       IN  /\ p_heap' =
                  [p_heap EXCEPT ![p_hook[i].response_files] =
                      LoadedUpTo(expected, p_fs, @,
                                 IF n = 0 THEN Len(expected) ELSE n - 1)]
           /\ p_pre' = [p_pre EXCEPT ![i] = IF n = 0 THEN "ok" ELSE "raised"]
    /\ p_acting' = i
    /\ p_out' = None
    /\ UNCHANGED <<p_hook, p_target, p_steps, p_fs, p_post, p_ninvokes>>

\* hook.get_response_for_invocation of instance i
PairGetResponse(i) ==
    /\ p_pre[i] # "raised" /\ ~p_post[i]
    /\ \E invocation_data \in LiveInputs :
           p_out' = get_response_for_invocation(
                        p_heap[p_hook[i].expected_invocations],
                        p_heap[p_hook[i].response_files], invocation_data)
    /\ p_acting' = i
    /\ UNCHANGED <<p_heap, p_hook, p_target, p_steps, p_fs, p_pre, p_post,
                   p_ninvokes>>

\* target.invoke of instance i, answered with a stream that runs to its end:
\* a cited chunk and a trace fragment, or a trace fragment alone
PairInvoke(i) ==
    /\ p_ninvokes[i] < MaxPairInvokes
    /\ \E kinds \in {<<"chunk", "trace">>, <<"trace">>} :
           LET trace_data == p_heap[p_target[i].trace_data]
               r == Consume(Body(kinds, 1, Len(trace_data)), <<>>, trace_data,
                            p_heap[p_target[i].citations])
           IN  /\ p_heap' = [p_heap EXCEPT ![p_target[i].trace_data] = r.trace_data,
                                           ![p_target[i].citations] = r.citations]
               /\ p_out' = r.completion
    /\ p_ninvokes' = [p_ninvokes EXCEPT ![i] = @ + 1]
    /\ p_acting' = i
    /\ UNCHANGED <<p_hook, p_target, p_steps, p_fs, p_pre, p_post>>

\* hook.post_evaluate of instance i: it writes to the test result it is handed
PairPostEvaluate(i) ==
    /\ p_pre[i] # "raised" /\ ~p_post[i]
    /\ \E trace \in {<<>>, <<StepData(<<InvocationEvent(
                                         TraceOf(A1, "RETURN_CONTROL"))>>)>>} :
           LET expected == p_heap[p_hook[i].expected_invocations]
           IN  p_out' = IF expected = <<>> THEN <<>>
                        ELSE ValidationErrors(expected,
                                              ReturnControlInvocations(trace))
    /\ p_post' = [p_post EXCEPT ![i] = TRUE]
    /\ p_acting' = i
    /\ UNCHANGED <<p_heap, p_hook, p_target, p_steps, p_fs, p_pre, p_ninvokes>>

\* the pair variables of a specification that runs one instance
NoPair ==
    /\ p_heap = <<>>
    /\ p_hook = <<>>
    /\ p_target = <<>>
    /\ p_steps = <<>>
    /\ p_fs = <<>>
    /\ p_pre = <<>>
    /\ p_post = <<>>
    /\ p_ninvokes = <<>>
    /\ p_acting = 0
    /\ p_out = None

----------------------------------------------------------------------------
(* test/test_suite.py: TestSuite *)

\* strings are sequences of characters
NameA == <<"a">>
NameB == <<"b">>
FilterChars == {"a", "b", ",", " "}
Filters == SeqsUpTo(FilterChars, MaxFilter)

\* str.split(",")
RECURSIVE Split(_)
Split(str) ==
    LET commas == {i \in 1..Len(str) : str[i] = ","}
    IN  IF commas = {} THEN <<str>>
        ELSE LET k == CHOOSE i \in commas : \A j \in commas : i <= j
             IN  <<SubSeq(str, 1, k - 1)>> \o Split(SubSeq(str, k + 1, Len(str)))

\* str.strip()
RECURSIVE Strip(_)
Strip(str) ==
    IF str = <<>> THEN str
    ELSE IF Head(str) = " " THEN Strip(Tail(str))
    ELSE IF str[Len(str)] = " " THEN Strip(SubSeq(str, 1, Len(str) - 1))
    ELSE str

\* _parse_filter: [n.strip() for n in filter.split(",")]
parse_filter(filter) ==
    LET parts == Split(filter) IN [i \in 1..Len(parts) |-> Strip(parts[i])]

\* ---- step configurations: List[Union[str, dict]], and whatever else a
\* configuration file may hold
StrStep(text) ==
    [kind |-> "str", text |-> text, step |-> Absent, expected_invocation |-> Absent]
OtherStep ==
    [kind |-> "other", text |-> None, step |-> Absent, expected_invocation |-> Absent]
DictStep(step, expected_invocation) ==
    [kind |-> "dict", text |-> None, step |-> step,
     expected_invocation |-> expected_invocation]

ApiConfig(ag, path, method, params) ==
    [actionGroup |-> ag, apiPath |-> path, httpMethod |-> method,
     parameters |-> params]
FuncConfig(ag, fn, params) ==
    [actionGroup |-> ag, function |-> fn, parameters |-> params]
InvConfig(api, fn, file) ==
    [apiInvocationInput |-> api, functionInvocationInput |-> fn,
     invocation_response_file |-> file]

ConfigParams == <<Param("a", StrVal(1)), Param("b", IntVal(1))>>
FullApiConfig == ApiConfig(Some("ag1"), Some("/p1"), Some("GET"), Some(ConfigParams))
FullFuncConfig == FuncConfig(Some("ag1"), Some("f1"), Some(ConfigParams))
ApiConfigs ==
    {FullApiConfig,
     ApiConfig(Some("ag1"), Some("/p1"), Some("GET"), Absent),
     ApiConfig(Absent, Some("/p1"), Some("GET"), Absent),
     ApiConfig(Some("ag1"), Absent, Some("GET"), Absent),
     ApiConfig(Some("ag1"), Some("/p1"), Absent, Absent)}
FuncConfigs ==
    {FullFuncConfig,
     FuncConfig(Absent, Some("f1"), Absent),
     FuncConfig(Some("ag1"), Absent, Absent)}
InvConfigs ==
    {InvConfig(Some(c), Absent, Some("r1.json")) : c \in ApiConfigs}
        \cup {InvConfig(Absent, Some(c), Some("r2.json")) : c \in FuncConfigs}
        \cup {InvConfig(Some(FullApiConfig), Absent, Absent),
              InvConfig(Absent, Absent, Some("r1.json")),
              InvConfig(Some(FullApiConfig), Some(FullFuncConfig), Some("r1.json"))}
StepConfigs ==
    {StrStep("s"), OtherStep,
     DictStep(Absent, Absent), DictStep(Some(""), Absent), DictStep(Some("s"), Absent),
     DictStep(Absent, Some(InvConfig(Some(FullApiConfig), Absent, Some("r1.json"))))}
        \cup {DictStep(Some("s"), Some(inv)) : inv \in InvConfigs}
StepConfigLists == SeqsUpTo(StepConfigs, MaxConfigSteps)

\* a configuration: the tests by name, in key order
TestConfig(name, steps) == [name |-> name, steps |-> steps]
FullConfigs ==
    {<<TestConfig(NameA, ss)>> : ss \in StepConfigLists}
        \cup {<<TestConfig(NameA, ss), TestConfig(NameB, sb)>> :
                 ss \in StepConfigLists, sb \in {<<StrStep("s")>>, <<OtherStep>>}}
SmallConfigs ==
    {<<TestConfig(NameA, sa), TestConfig(NameB, sb)>> :
        sa \in {<<StrStep("s")>>, <<DictStep(Absent, Absent)>>},
        sb \in {<<StrStep("s")>>, <<DictStep(Some("s"), Absent), OtherStep>>}}
        \cup {<<TestConfig(NameA, <<StrStep("s")>>)>>}

\* ---- _parse_steps

\* the expected invocation of a dict step; a missing required key is a KeyError
parse_invocation(inv_config) ==
    LET api == inv_config.apiInvocationInput
        fn == inv_config.functionInvocationInput
    IN  IF /\ IsSet(api)
           /\ \/ ~IsSet(Get(api).actionGroup) \/ ~IsSet(Get(api).apiPath)
              \/ ~IsSet(Get(api).httpMethod)
        THEN Raise("KeyError")
        ELSE IF /\ IsSet(fn)
                /\ \/ ~IsSet(Get(fn).actionGroup) \/ ~IsSet(Get(fn).function)
        THEN Raise("KeyError")
        ELSE IF ~IsSet(inv_config.invocation_response_file)
        THEN Raise("KeyError")
        ELSE [exc |-> "",
              val |-> ExpectedInvocation(
                  IF IsSet(api)
                  THEN Some(ApiInput(Get(Get(api).actionGroup), Get(Get(api).apiPath),
                                     Get(Get(api).httpMethod),
                                     IF IsSet(Get(api).parameters)
                                     THEN Get(Get(api).parameters) ELSE <<>>))
                  ELSE Absent,
                  IF IsSet(fn)
                  THEN Some(FunctionInput(Get(Get(fn).actionGroup),
                                          Get(Get(fn).function),
                                          IF IsSet(Get(fn).parameters)
                                          THEN Get(Get(fn).parameters) ELSE <<>>))
                  ELSE Absent,
                  Get(inv_config.invocation_response_file))]

\* a plausible slip: an entry that is neither a string nor a dict is kept as
\* a plain step
parse_step_lenient(step_config) ==
    IF step_config.kind \in {"str", "other"}
    THEN [exc |-> "",
          val |-> [kind |-> "str", step |-> step_config.text,
                   expected_invocation |-> Absent]]
    ELSE IF ~IsSet(step_config.step) \/ step_config.step = Some("")
    THEN Raise("ValueError")
    ELSE IF ~IsSet(step_config.expected_invocation)
    THEN [exc |-> "", val |-> TestStep(Get(step_config.step), Absent)]
    ELSE LET inv == parse_invocation(Get(step_config.expected_invocation))
         IN  IF inv.exc # "" THEN inv
             ELSE [exc |-> "", val |-> TestStep(Get(step_config.step), Some(inv.val))]

\* one iteration of _parse_steps
parse_step(step_config) ==
    IF step_config.kind = "str"
    THEN [exc |-> "",
          val |-> [kind |-> "str", step |-> step_config.text,
                   expected_invocation |-> Absent]]
    ELSE IF step_config.kind = "dict"
    THEN IF ~IsSet(step_config.step) \/ step_config.step = Some("")
         THEN Raise("ValueError")
         ELSE IF ~IsSet(step_config.expected_invocation)
         THEN [exc |-> "", val |-> TestStep(Get(step_config.step), Absent)]
         ELSE LET inv == parse_invocation(Get(step_config.expected_invocation))
              IN  IF inv.exc # "" THEN inv
                  ELSE [exc |-> "",
                        val |-> TestStep(Get(step_config.step), Some(inv.val))]
    ELSE Raise("ValueError")

\* a plausible slip: a parsed step is put in front of the list
RECURSIVE parse_steps_prepend(_, _)
parse_steps_prepend(steps_config, parsed_steps) ==
    IF steps_config = <<>> THEN [exc |-> "", val |-> parsed_steps]
    ELSE LET r == parse_step(Head(steps_config))
         IN  IF r.exc # "" THEN r
             ELSE parse_steps_prepend(Tail(steps_config), <<r.val>> \o parsed_steps)

RECURSIVE parse_steps(_, _)
parse_steps(steps_config, parsed_steps) ==
    IF steps_config = <<>> THEN [exc |-> "", val |-> parsed_steps]
    ELSE LET r == parse_step(Head(steps_config))
         IN  IF r.exc # "" THEN r
             ELSE parse_steps(Tail(steps_config), Append(parsed_steps, r.val))

\* ---- _load_tests

\* config[name]
Lookup(config, name) ==
    LET hits == {i \in 1..Len(config) : config[i].name = name}
    IN  IF hits = {} THEN Raise("KeyError")
        ELSE [exc |-> "", val |-> config[CHOOSE i \in hits : TRUE]]

ConfigKeys(config) == [i \in 1..Len(config) |-> config[i].name]

\* test/test.py Test, the fields the loader sets from the step list
Test(name, steps) == [name |-> name, steps |-> steps]

RECURSIVE load_names(_, _, _)
load_names(config, names, tests) ==
    IF names = <<>> THEN [exc |-> "", val |-> tests]
    ELSE LET test_config == Lookup(config, Head(names))
         IN  IF test_config.exc # "" THEN test_config
             ELSE LET steps == parse_steps(test_config.val.steps, <<>>)
                  IN  IF steps.exc # "" THEN steps
                      ELSE load_names(config, Tail(names),
                               Append(tests, Test(Head(names), steps.val)))

load_tests(config, filter) ==
    load_names(config,
               IF filter # <<>> THEN parse_filter(filter) ELSE ConfigKeys(config),
               <<>>)

\* a plausible slip: the comparison only catches more names than tests
check_test_names_unique_gt(tests) ==
    Cardinality({tests[i].name : i \in 1..Len(tests)}) <= Len(tests)

\* _check_test_names_unique: TRUE when the validator lets the suite through
check_test_names_unique(tests) ==
    Cardinality({tests[i].name : i \in 1..Len(tests)}) = Len(tests)

\* ---- TestSuite.load as two steps: _load_tests, then cls(tests=...)

LoadTests ==
    /\ l_pc = "start"
    /\ LET r == load_tests(l_config, l_filter)
       IN  IF r.exc # ""
           THEN /\ l_pc' = "raised" /\ l_exc' = r.exc /\ l_tests' = Absent
           ELSE /\ l_pc' = "loaded" /\ l_exc' = "" /\ l_tests' = Some(r.val)
    /\ UNCHANGED <<l_config, l_filter>>

Construct ==
    /\ l_pc = "loaded"
    /\ IF check_test_names_unique(Get(l_tests))
       THEN l_pc' = "constructed" /\ l_exc' = ""
       ELSE l_pc' = "raised" /\ l_exc' = "ValueError"
    /\ UNCHANGED <<l_config, l_filter, l_tests>>

\* the loader variables of a specification that loads no suite
NoLoader ==
    /\ l_config = <<>> /\ l_filter = <<>> /\ l_pc = "start"
    /\ l_tests = Absent /\ l_exc = ""

----------------------------------------------------------------------------
(* SpecMatch: the matcher applied to every bounded pair *)

MatchInit ==
    /\ m_expected \in MatchExpectedSet
    /\ m_actual \in MatchActualSet
    /\ m_pc = "init"
    /\ m_result = Ret(FALSE)
    /\ NoHook
    /\ NoTarget
    /\ NoStream
    /\ NoLoader
    /\ NoPair

MatchLive ==
    /\ m_pc = "init"
    /\ m_pc' = "live"
    /\ m_result' = match_invocation(m_expected, LiveOf(m_actual))
    /\ UNCHANGED <<m_expected, m_actual>>
    /\ UNCHANGED <<hookVars, targetVars, streamVars, loaderVars, pairVars>>

MatchTrace ==
    /\ m_pc = "init"
    /\ m_pc' = "trace"
    /\ m_result' = Ret(match_trace_invocation(m_expected,
                                              TraceOf(m_actual, "RETURN_CONTROL")))
    /\ UNCHANGED <<m_expected, m_actual>>
    /\ UNCHANGED <<hookVars, targetVars, streamVars, loaderVars, pairVars>>

MatchNext == MatchLive \/ MatchTrace

SpecMatch == MatchInit /\ [][MatchNext]_vars

----------------------------------------------------------------------------
(* SpecHook: one hook over a bounded test, disk and trace *)

NoMatch ==
    /\ m_expected = ExpectedInvocation(Absent, Absent, "r1.json")
    /\ m_actual = A1
    /\ m_pc = "init"
    /\ m_result = Ret(FALSE)

HookInit ==
    /\ NoMatch
    /\ NoTarget
    /\ NoStream
    /\ NoLoader
    /\ NoPair
    /\ \E steps \in StepLists : HookConstructed(steps)
    /\ h_fs \in Disks
    /\ h_trace \in Traces
    /\ h_test_result \in EvaluatorResults

HookNext ==
    \/ PreEvaluate /\ UNCHANGED <<matchVars, targetVars, streamVars, loaderVars, pairVars>>
    \/ GetResponseForInvocation /\ UNCHANGED <<matchVars, targetVars, streamVars, loaderVars, pairVars>>
    \/ PostEvaluate /\ UNCHANGED <<matchVars, targetVars, streamVars, loaderVars, pairVars>>

SpecHook == HookInit /\ [][HookNext]_vars

----------------------------------------------------------------------------
(* SpecNeither: the hook of a test that declares an expectation of no variant *)

\* steps of such a test: the variant-less expectation, a function expectation
\* with another response file, and a plain step
NeitherStepLists ==
    SeqsUpTo({PlainStep, TestStep("s", Some(N0)), TestStep("s", Some(F1))},
             MaxSteps)

NeitherInit ==
    /\ NoMatch
    /\ NoTarget
    /\ NoStream
    /\ NoLoader
    /\ NoPair
    /\ \E steps \in NeitherStepLists : HookConstructed(steps)
    /\ h_fs \in Disks
    /\ h_trace \in Traces
    /\ h_test_result \in EvaluatorResults

SpecNeither == NeitherInit /\ [][HookNext]_vars

----------------------------------------------------------------------------
(* SpecTarget: one target, with or without a hook, through one invoke *)

\* the tests that matter to the target: the lists of declared expectations
TargetStepLists ==
    SeqsUpTo({TestStep("s", Some(e)) : e \in HookExpected \cup {E2}}, MaxSteps)

\* every response file is on disk, r1.json as an empty file
FullDisks ==
    {d \in Disks : /\ \A p \in ResolvedPaths : d[p] # None
                   /\ d[JoinPath(base_dir, "r1.json")] = ""}

TargetInit ==
    /\ NoMatch
    /\ NoStream
    /\ NoLoader
    /\ NoPair
    /\ TargetConstructed
    /\ t_has_hook \in BOOLEAN
    /\ IF t_has_hook
       THEN /\ \E steps \in TargetStepLists : HookConstructed(steps)
            /\ h_fs \in FullDisks
       ELSE /\ HookConstructed(<<>>)
            /\ h_fs = [p \in ResolvedPaths |-> None]
    /\ h_trace = <<>>
    /\ h_test_result = [passed |-> TRUE, result |-> "PASSED", reasoning |-> <<>>]

TargetNext ==
    \/ /\ t_has_hook /\ t_pc = "idle"
       /\ PreEvaluate
       /\ UNCHANGED <<matchVars, targetVars, streamVars, loaderVars, pairVars>>
    \/ Invoke /\ UNCHANGED <<matchVars, hookVars, streamVars, loaderVars, pairVars>>
    \/ StreamEnds /\ UNCHANGED <<matchVars, hookVars, streamVars, loaderVars, pairVars>>
    \/ StreamPauses /\ UNCHANGED <<matchVars, hookVars, streamVars, loaderVars, pairVars>>
    \/ HandleReturnControl /\ UNCHANGED <<matchVars, hookVars, streamVars, loaderVars, pairVars>>

SpecTarget == TargetInit /\ [][TargetNext]_vars

----------------------------------------------------------------------------
(* SpecTransport: SpecTarget with a transport whose calls may fail *)

TransportNext ==
    \/ TargetNext
    \/ InvokeAgentRaises /\ UNCHANGED <<matchVars, hookVars, streamVars, loaderVars, pairVars>>

SpecTransport == TargetInit /\ [][TransportNext]_vars

----------------------------------------------------------------------------
(* SpecSession: one target through several invokes *)

SessionNext ==
    \/ TargetNext
    \/ InvokeAgain /\ UNCHANGED <<matchVars, hookVars, streamVars, loaderVars, pairVars>>

\* one target, with or without a hook; the hook's test declares one API and
\* one function expectation
SessionInit ==
    /\ NoMatch
    /\ NoStream
    /\ NoLoader
    /\ NoPair
    /\ TargetConstructed
    /\ t_has_hook \in BOOLEAN
    /\ IF t_has_hook
       THEN /\ HookConstructed(<<TestStep("s", Some(E1)), TestStep("s", Some(F1))>>)
            /\ h_fs \in FullDisks
       ELSE /\ HookConstructed(<<>>)
            /\ h_fs = [p \in ResolvedPaths |-> None]
    /\ h_trace = <<>>
    /\ h_test_result = [passed |-> TRUE, result |-> "PASSED", reasoning |-> <<>>]

SpecSession == SessionInit /\ [][SessionNext]_vars

----------------------------------------------------------------------------
(* SpecStream: one target without a hook, one invoke, a stream of any shape *)

StreamInit ==
    /\ NoMatch
    /\ NoHook
    /\ NoLoader
    /\ NoPair
    /\ TargetConstructed
    /\ t_has_hook = FALSE
    /\ s_stream \in Streams
    /\ s_direct = Absent

StreamNext ==
    \/ /\ ~IsSet(s_direct) /\ Invoke
       /\ UNCHANGED <<matchVars, hookVars, streamVars, loaderVars, pairVars>>
    \/ Deliver /\ UNCHANGED <<matchVars, hookVars, loaderVars, pairVars>>
    \/ /\ ~IsSet(s_direct) /\ HandleReturnControl
       /\ UNCHANGED <<matchVars, hookVars, streamVars, loaderVars, pairVars>>
    \/ DirectHandleReturnControl /\ UNCHANGED <<matchVars, hookVars, loaderVars, pairVars>>

SpecStream == StreamInit /\ [][StreamNext]_vars

----------------------------------------------------------------------------
(* SpecSuite: TestSuite.load(config, filter) *)

SuiteInit ==
    /\ NoMatch
    /\ NoHook
    /\ NoTarget
    /\ NoStream
    /\ NoPair
    /\ \/ l_filter = <<>> /\ l_config \in FullConfigs
       \/ l_filter \in Filters /\ l_config \in SmallConfigs
    /\ l_pc = "start"
    /\ l_tests = Absent
    /\ l_exc = ""

SuiteNext ==
    \/ LoadTests /\ UNCHANGED <<matchVars, hookVars, targetVars, streamVars, pairVars>>
    \/ Construct /\ UNCHANGED <<matchVars, hookVars, targetVars, streamVars, pairVars>>

SpecSuite == SuiteInit /\ [][SuiteNext]_vars

----------------------------------------------------------------------------
(* SpecPair: two tests, each with a hook and a target, run in any interleaving *)

PairInit ==
    /\ NoMatch
    /\ NoHook
    /\ NoTarget
    /\ NoStream
    /\ NoLoader
    /\ p_steps \in [Instances -> PairTests]
    /\ p_fs \in {d \in Disks : d[JoinPath(base_dir, "r1.json")] = "c1"}
    /\ p_hook = [i \in Instances |->
                    [expected_invocations |-> NewObject(i, "expected_invocations"),
                     response_files |-> NewObject(i, "response_files")]]
    /\ p_target = [i \in Instances |->
                      [trace_data |-> NewObject(i, "trace_data"),
                       citations |-> NewObject(i, "citations")]]
    /\ LET objects == {NewObject(i, Fields[k]) :
                           i \in Instances, k \in 1..Len(Fields)}
       IN  p_heap = Constructed(Constructed([a \in objects |-> <<>>], 1, p_steps[1]),
                                2, p_steps[2])
    /\ p_pre = [i \in Instances |-> "no"]
    /\ p_post = [i \in Instances |-> FALSE]
    /\ p_ninvokes = [i \in Instances |-> 0]
    /\ p_acting = 0
    /\ p_out = None

PairNext ==
    \/ \E i \in Instances :
           PairPreEvaluate(i)
               /\ UNCHANGED <<matchVars, hookVars, targetVars, streamVars, loaderVars>>
    \/ \E i \in Instances :
           PairGetResponse(i)
               /\ UNCHANGED <<matchVars, hookVars, targetVars, streamVars, loaderVars>>
    \/ \E i \in Instances :
           PairInvoke(i)
               /\ UNCHANGED <<matchVars, hookVars, targetVars, streamVars, loaderVars>>
    \/ \E i \in Instances :
           PairPostEvaluate(i)
               /\ UNCHANGED <<matchVars, hookVars, targetVars, streamVars, loaderVars>>

SpecPair == PairInit /\ [][PairNext]_vars

----------------------------------------------------------------------------
(* Claims about the matcher (checked under SpecMatch) *)

\* exactly one variant of the expected invocation is populated, and it is the
\* variant the actual record uses
SameVariant(e, a) ==
    \/ /\ a.kind = "api"
       /\ IsSet(e.apiInvocationInput) /\ ~IsSet(e.functionInvocationInput)
    \/ /\ a.kind = "function"
       /\ IsSet(e.functionInvocationInput) /\ ~IsSet(e.apiInvocationInput)

ExpectedInput(e) ==
    IF IsSet(e.apiInvocationInput)
    THEN Get(e.apiInvocationInput) ELSE Get(e.functionInvocationInput)

IdentityEqual(e, a) ==
    IF a.kind = "api"
    THEN /\ a.actionGroup = ExpectedInput(e).actionGroup
         /\ a.apiPath = ExpectedInput(e).apiPath
         /\ a.httpMethod = ExpectedInput(e).httpMethod
    ELSE /\ a.actionGroup = ExpectedInput(e).actionGroup
         /\ a.function = ExpectedInput(e).function

\* the value a parameter list gives a name: that of its last entry of that name
GivesValue(ps, n, v) ==
    \E i \in 1..Len(ps) :
        /\ ps[i].name = n /\ ps[i].value = v
        /\ ~\E j \in 1..Len(ps) : j > i /\ ps[j].name = n

SameMapping(eps, aps) ==
    /\ \A i \in 1..Len(eps) : \E j \in 1..Len(aps) : aps[j].name = eps[i].name
    /\ \A j \in 1..Len(aps) : \E i \in 1..Len(eps) : eps[i].name = aps[j].name
    /\ \A n \in Names : \A v \in Values, w \in ActualValues :
           (GivesValue(eps, n, v) /\ GivesValue(aps, n, w)) => PyEq(v, w)

\* C1: for an expected invocation and a live or trace record of the same
\* variant, the matcher answers true exactly when the identity fields are equal
\* and the two parameter lists give the same name -> value mapping (no name
\* missing, none extra, no value different).
C1_MatchIffIdentityAndMapping ==
    (m_pc # "init" /\ SameVariant(m_expected, m_actual)) =>
        m_result = Ret(/\ IdentityEqual(m_expected, m_actual)
                       /\ SameMapping(ExpectedInput(m_expected).parameters,
                                      m_actual.parameters))

\* a trace record with two parameters, listed in the other order, has matched
C1_Witness ==
    /\ m_pc = "trace" /\ m_result = Ret(TRUE)
    /\ SameVariant(m_expected, m_actual)
    /\ Len(m_actual.parameters) = 2
    /\ Len(ExpectedInput(m_expected).parameters) = 2
    /\ m_actual.parameters[1].name # ExpectedInput(m_expected).parameters[1].name

\* the two lists name the same parameters with the same values, entry by
\* entry, and at least one entry carries another type tag
OnlyTypeTagsDiffer(eps, aps) ==
    /\ Len(eps) = Len(aps)
    /\ \A i \in 1..Len(eps) :
           eps[i].name = aps[i].name /\ eps[i].value = aps[i].value
    /\ \E i \in 1..Len(eps) : eps[i].type # aps[i].type

\* C24: a difference in a parameter's type tag between the expected
\* invocation and the actual record (same name, same value, other 'type')
\* makes match_invocation and match_trace_invocation return false.
C24_TypeTagDifferenceFails ==
    (/\ m_pc # "init"
     /\ SameVariant(m_expected, m_actual)
     /\ IdentityEqual(m_expected, m_actual)
     /\ OnlyTypeTagsDiffer(ExpectedInput(m_expected).parameters,
                           m_actual.parameters))
        => m_result = Ret(FALSE)

\* the orders a list of n entries can be put in
Orders(n) ==
    {f \in [1..n -> 1..n] : \A i, j \in 1..n : f[i] = f[j] => i = j}
Permuted(ps, f) == [i \in 1..Len(ps) |-> ps[f[i]]]
DistinctNames(ps) ==
    \A i, j \in 1..Len(ps) : ps[i].name = ps[j].name => i = j

\* the expected invocation with the parameters of its variants reordered
ExpectedPermuted(e, f) ==
    [e EXCEPT
        !.apiInvocationInput =
            IF IsSet(@) THEN Some([Get(@) EXCEPT !.parameters = Permuted(@, f)])
            ELSE @,
        !.functionInvocationInput =
            IF IsSet(@) THEN Some([Get(@) EXCEPT !.parameters = Permuted(@, f)])
            ELSE @]
ActualPermuted(a, f) == [a EXCEPT !.parameters = Permuted(@, f)]
ExpectedParameters(e) ==
    IF IsSet(e.apiInvocationInput) THEN Get(e.apiInvocationInput).parameters
    ELSE IF IsSet(e.functionInvocationInput)
    THEN Get(e.functionInvocationInput).parameters
    ELSE <<>>

\* C25: the order of parameters is irrelevant to matching: when the names
\* within each list are pairwise distinct, reordering the expected list or the
\* actual list leaves the result of match_invocation and of
\* match_trace_invocation as it was.
C25_ParameterOrderIrrelevant ==
    (/\ m_pc # "init"
     /\ DistinctNames(ExpectedParameters(m_expected))
     /\ DistinctNames(m_actual.parameters)) =>
        \A f \in Orders(Len(ExpectedParameters(m_expected))),
           g \in Orders(Len(m_actual.parameters)) :
            LET e == ExpectedPermuted(m_expected, f)
                a == ActualPermuted(m_actual, g)
            IN  m_result =
                    IF m_pc = "live" THEN match_invocation(e, LiveOf(a))
                    ELSE Ret(match_trace_invocation(e, TraceOf(a, "RETURN_CONTROL")))

\* a live record has matched whose two distinct parameters come in the other
\* order than the expectation's
C25_Witness ==
    /\ m_pc = "live" /\ m_result = Ret(TRUE)
    /\ SameVariant(m_expected, m_actual)
    /\ Len(m_actual.parameters) = 2
    /\ DistinctNames(m_actual.parameters)
    /\ Len(ExpectedInput(m_expected).parameters) = 2
    /\ DistinctNames(ExpectedInput(m_expected).parameters)
    /\ m_actual.parameters[1].name = ExpectedInput(m_expected).parameters[2].name

\* the live-shape record of the expectation's variant that a trace record
\* gives when actionGroupName is read as actionGroup and verb as httpMethod
Renamed(e, t) ==
    IF IsSet(e.apiInvocationInput)
    THEN [apiInvocationInput |->
              Some(ApiInput(t.actionGroupName, t.apiPath, t.verb, t.parameters)),
          functionInvocationInput |-> Absent]
    ELSE [apiInvocationInput |-> Absent,
          functionInvocationInput |->
              Some(FunctionInput(t.actionGroupName, t.function, t.parameters))]

\* C26: trace matching is live matching after field renaming:
\* match_trace_invocation(E, T) equals match_invocation(E, L), L the live-shape
\* record of E's variant built from T.
C26_TraceIsLiveAfterRenaming ==
    m_pc = "trace" =>
        m_result = match_invocation(m_expected,
                       Renamed(m_expected, TraceOf(m_actual, "RETURN_CONTROL")))

\* a trace record of an API call, with its verb, has matched
C26_Witness ==
    /\ m_pc = "trace" /\ m_result = Ret(TRUE)
    /\ m_actual.kind = "api" /\ m_actual.httpMethod = "GET"
    /\ IsSet(m_expected.apiInvocationInput)

\* a parameter list without the entries that a later entry of the same name
\* follows
Collapsed(ps) ==
    LET kept == SelectSeq([i \in 1..Len(ps) |-> i],
                    LAMBDA i : \A j \in (i + 1)..Len(ps) : ps[j].name # ps[i].name)
    IN  [k \in 1..Len(kept) |-> ps[kept[k]]]

\* the expected invocation with the parameters of its variants collapsed
ExpectedCollapsed(e) ==
    [e EXCEPT
        !.apiInvocationInput =
            IF IsSet(@) THEN Some([Get(@) EXCEPT !.parameters = Collapsed(@)])
            ELSE @,
        !.functionInvocationInput =
            IF IsSet(@) THEN Some([Get(@) EXCEPT !.parameters = Collapsed(@)])
            ELSE @]
ActualCollapsed(a) == [a EXCEPT !.parameters = Collapsed(@)]

\* the two collapsed lists give the same names, each with an equal value
CollapsedEqual(eps, aps) ==
    LET ce == Collapsed(eps)
        ca == Collapsed(aps)
    IN  /\ \A i \in 1..Len(ce) : \E j \in 1..Len(ca) :
               ca[j].name = ce[i].name /\ PyEq(ca[j].value, ce[i].value)
        /\ \A j \in 1..Len(ca) : \E i \in 1..Len(ce) : ce[i].name = ca[j].name

\* C36: when a parameter list holds the same name more than once, the matcher
\* keeps only the last value for that name, on the expected and on the actual
\* side: the result is that of matching the two collapsed lists, so an actual
\* record with more parameter entries than the expectation still matches when
\* the collapsed name -> value mappings are equal.
C36_LastValueKept ==
    m_pc # "init" =>
        /\ m_result =
               IF m_pc = "live"
               THEN match_invocation(ExpectedCollapsed(m_expected),
                                     LiveOf(ActualCollapsed(m_actual)))
               ELSE Ret(match_trace_invocation(
                            ExpectedCollapsed(m_expected),
                            TraceOf(ActualCollapsed(m_actual), "RETURN_CONTROL")))
        /\ (/\ SameVariant(m_expected, m_actual)
            /\ IdentityEqual(m_expected, m_actual)
            /\ Len(m_actual.parameters) > Len(ExpectedInput(m_expected).parameters)
            /\ CollapsedEqual(ExpectedInput(m_expected).parameters,
                              m_actual.parameters))
               => m_result = Ret(TRUE)

\* a live record has matched that gives one name twice, with two values, to
\* an expectation of one parameter
C36_Witness ==
    /\ m_pc = "live" /\ m_result = Ret(TRUE)
    /\ SameVariant(m_expected, m_actual)
    /\ Len(ExpectedInput(m_expected).parameters) = 1
    /\ Len(m_actual.parameters) = 2
    /\ m_actual.parameters[1].name = m_actual.parameters[2].name
    /\ ~PyEq(m_actual.parameters[1].value, m_actual.parameters[2].value)

\* a trace record has matched an expectation that gives one name twice, with
\* two values
C36_ExpectedWitness ==
    /\ m_pc = "trace" /\ m_result = Ret(TRUE)
    /\ SameVariant(m_expected, m_actual)
    /\ Len(ExpectedInput(m_expected).parameters) = 2
    /\ Len(m_actual.parameters) = 1
    /\ ~PyEq(ExpectedInput(m_expected).parameters[1].value,
             ExpectedInput(m_expected).parameters[2].value)

----------------------------------------------------------------------------
(* Claims about the reconciler and the response lookup (checked under SpecHook) *)

\* the return-control records post_evaluate reconciles, in trace order
Records == ReturnControlInvocations(h_trace)

\* the record the i-th expectation was satisfied by, 0 if by none
AssignedTo(i) == FirstMatch(h_expected_invocations[i].invocation, Records)

\* C3: once a trace record has satisfied one expectation it is consumed and
\* cannot satisfy a second one: the assignment of expectations to matched
\* records is injective, also for two identical expectations.
C3_AssignmentInjective ==
    h_post =>
        \A i, j \in 1..Len(h_expected_invocations) :
            (i # j /\ AssignedTo(i) # 0 /\ AssignedTo(j) # 0)
                => AssignedTo(i) # AssignedTo(j)

\* the expectations and the records are in one-to-one correspondence under
\* match_trace_invocation
InBijection(expected, rcs) ==
    /\ Len(expected) = Len(rcs)
    /\ \E f \in [1..Len(expected) -> 1..Len(rcs)] :
           /\ \A i, j \in 1..Len(expected) : i # j => f[i] # f[j]
           /\ \A i \in 1..Len(expected) :
                  match_trace_invocation(expected[i].invocation, rcs[f[i]])

\* C4: post_evaluate records zero validation errors exactly when the declared
\* expected invocations and the return-control records of the trace are in
\* exact one-to-one correspondence under match_trace_invocation. (Stated for
\* the tests post_evaluate validates, those declaring an expected invocation.)
C4_PassIffBijection ==
    (h_post /\ h_expected_invocations # <<>>) =>
        (h_errors = <<>> <=> InBijection(h_expected_invocations, Records))

\* C5 (lookup): get_response_for_invocation answers with content or None for
\* every pending input and every list of expectations; it never raises.
C5_LookupNeverRaises == h_last.exc = ""

\* the records no expectation was satisfied by, in trace order
Unconsumed ==
    LET idx == SelectSeq([j \in 1..Len(Records) |-> j],
                   LAMBDA j : \A i \in 1..Len(h_expected_invocations) :
                                  AssignedTo(i) # j)
    IN  [k \in 1..Len(idx) |-> Records[idx[k]]]

UnexpectedErrors ==
    {k \in 1..Len(h_errors) : h_errors[k].kind = "unexpected"}

FailedListingUnconsumed ==
    /\ h_test_result.passed = FALSE
    /\ h_test_result.result = "RETURN_CONTROL_VALIDATION_FAILED"
    /\ Cardinality(UnexpectedErrors) = 1
    /\ \A k \in UnexpectedErrors : h_errors[k].invocations = Unconsumed

DeclaresUnmatched(p) ==
    /\ h_steps[p].kind = "TestStep"
    /\ IsSet(h_steps[p].expected_invocation)
    /\ \A j \in 1..Len(Records) :
           ~match_trace_invocation(Get(h_steps[p].expected_invocation), Records[j])

NotFoundErrorsOf(p) ==
    {k \in 1..Len(h_errors) :
        h_errors[k].kind = "not_found" /\ h_errors[k].step_index = p - 1}

\* C10: post_evaluate records exactly one 'Expected invocation not found'
\* error for each expected invocation that no return-control record matches;
\* the step index it names is the position of the declaring step within
\* test.steps, plain-text steps counted.
C10_NotFoundPerUnmatchedStep ==
    h_post =>
        /\ \A p \in 1..Len(h_steps) :
               DeclaresUnmatched(p) =>
                   /\ Cardinality(NotFoundErrorsOf(p)) = 1
                   /\ \A k \in NotFoundErrorsOf(p) :
                          h_errors[k].expected = h_steps[p].expected_invocation
        /\ \A k \in 1..Len(h_errors) :
               h_errors[k].kind = "not_found"
                   => h_errors[k].step_index + 1 \in 1..Len(h_steps)

\* the unmatched expectation is declared by the second step, after a plain one
C10_Witness ==
    /\ h_post
    /\ Len(h_steps) = 2 /\ h_steps[1].kind = "str"
    /\ DeclaresUnmatched(2)
    /\ NotFoundErrorsOf(2) # {}

\* the messages of test_result.reasoning, the joining newlines left out
ReasoningLines ==
    LET r == h_test_result.reasoning
    IN  [k \in 1..((Len(r) + 1) \div 2) |-> r[2 * k - 1]]

\* the reasoning text is messages joined by single newlines
NewlineJoined ==
    LET r == h_test_result.reasoning
    IN  /\ Len(r) % 2 = 1
        /\ \A k \in 1..Len(r) : (r[k] = Newline) <=> (k % 2 = 0)

\* the missing-expectation errors in step order, then the unexpected error
StepOrderThenUnexpected(lines) ==
    \A k, l \in 1..Len(lines) :
        k < l =>
            /\ lines[k].kind = "not_found"
            /\ lines[l].kind = "not_found"
                   => lines[k].step_index < lines[l].step_index

\* post_evaluate found a validation error: an expectation no record matches,
\* or a record no expectation was satisfied by
FoundValidationError ==
    /\ h_post /\ h_expected_invocations # <<>>
    /\ \/ \E p \in 1..Len(h_steps) : DeclaresUnmatched(p)
       \/ Unconsumed # <<>>

\* C11: when post_evaluate finds a validation error it sets passed to false,
\* result to the return-control failure code and reasoning to all the error
\* messages joined by newlines, the missing-expectation errors in step order
\* followed by the unexpected-invocations error; it does not raise.
C11_FailureReported ==
    FoundValidationError =>
        /\ h_test_result.passed = FALSE
        /\ h_test_result.result = "RETURN_CONTROL_VALIDATION_FAILED"
        /\ NewlineJoined
        /\ ReasoningLines = h_errors
        /\ StepOrderThenUnexpected(ReasoningLines)
        /\ \A p \in 1..Len(h_steps) :
               DeclaresUnmatched(p) =>
                   \E k \in 1..Len(ReasoningLines) :
                       /\ ReasoningLines[k].kind = "not_found"
                       /\ ReasoningLines[k].step_index = p - 1
        /\ Unconsumed # <<>> =>
               ReasoningLines[Len(ReasoningLines)].kind = "unexpected"

\* two expectations were not found and a record was unexpected
C11_Witness ==
    /\ FoundValidationError
    /\ Len(h_test_result.reasoning) = 5
    /\ h_test_result.reasoning[5].kind = "unexpected"
    /\ h_test_result.reasoning[1].kind = "not_found"

\* the response files the test's expected invocations reference
ReferencedFiles ==
    {Get(h_steps[p].expected_invocation).invocation_response_file :
        p \in {q \in 1..Len(h_steps) : h_steps[q].kind = "TestStep"
                                       /\ IsSet(h_steps[q].expected_invocation)}}

OnDisk(file) == h_fs[JoinPath(base_dir, file)] # None

\* C12: pre_evaluate resolves every response file the expected invocations
\* reference: if all of them exist the cache afterwards holds the content of
\* each; if one is missing pre_evaluate raises and the setup fails.
C12_PreEvaluateLoadsOrRaises ==
    h_pre # "no" =>
        IF \A f \in ReferencedFiles : OnDisk(f)
        THEN /\ h_pre = "ok"
             /\ \A f \in ReferencedFiles :
                    h_response_files[f] = h_fs[JoinPath(base_dir, f)]
        ELSE h_pre = "raised"

\* two different files were referenced and loaded
C12_Witness ==
    /\ h_pre = "ok"
    /\ Cardinality(ReferencedFiles) = 2
    /\ \A f \in ReferencedFiles : h_response_files[f] # None

\* C13: after pre_evaluate the response cache is read-only: no
\* get_response_for_invocation or post_evaluate call changes it, so the same
\* live input is answered with the same content before and after any call.
C13_CacheReadOnly ==
    [][h_pre = "ok" =>
          /\ h_response_files' = h_response_files
          /\ \A input \in LiveInputs :
                 get_response_for_invocation(h_expected_invocations',
                                             h_response_files', input)
                     = get_response_for_invocation(h_expected_invocations,
                                                   h_response_files, input)]_vars

\* a lookup was served from the loaded cache and post_evaluate has run since
C13_Witness ==
    /\ h_pre = "ok" /\ h_post
    /\ h_last.exc = "" /\ h_last.val # None
    /\ \E f \in Files : h_response_files[f] = h_last.val

\* the trace events of step s of the trace
EventsOf(s) ==
    IF IsSet(h_trace[s].data)
    THEN Get(h_trace[s].data).bedrock_agent_trace ELSE <<>>

\* the event carries an action-group invocation record
HasRecord(ev) ==
    /\ IsSet(ev.orchestrationTrace)
    /\ IsSet(Get(ev.orchestrationTrace).invocationInput)
    /\ IsSet(Get(Get(ev.orchestrationTrace).invocationInput)
                 .actionGroupInvocationInput)
RecordOf(ev) ==
    Get(Get(Get(ev.orchestrationTrace).invocationInput).actionGroupInvocationInput)

\* the action-group invocation records of step s of the trace
StepRecords(s) ==
    {RecordOf(EventsOf(s)[k]) :
        k \in {n \in 1..Len(EventsOf(s)) : HasRecord(EventsOf(s)[n])}}
ReturnControlRecords ==
    {r \in UNION {StepRecords(s) : s \in 1..Len(h_trace)} :
        r.executionType = "RETURN_CONTROL"}
OtherRecords ==
    {r \in UNION {StepRecords(s) : s \in 1..Len(h_trace)} :
        r.executionType # "RETURN_CONTROL"}

\* the steps of the test that declare an expected invocation
DeclaringSteps ==
    {p \in 1..Len(h_steps) :
        h_steps[p].kind = "TestStep" /\ IsSet(h_steps[p].expected_invocation)}

\* the invocations that post_evaluate reported as unexpected
ReportedUnexpected ==
    UNION {{h_errors[k].invocations[n] : n \in 1..Len(h_errors[k].invocations)} :
               k \in UnexpectedErrors}

\* an expectation is satisfied exactly by a return-control record, of any
\* step; only return-control records are reported as unexpected, and every
\* one that no expectation matches is
ReconciledReturnControl ==
    /\ \A p \in DeclaringSteps :
           (NotFoundErrorsOf(p) = {}) <=>
               \E r \in ReturnControlRecords :
                   match_trace_invocation(Get(h_steps[p].expected_invocation), r)
    /\ ReportedUnexpected \subseteq ReturnControlRecords
    /\ \A r \in ReturnControlRecords :
           (\A p \in DeclaringSteps :
                ~match_trace_invocation(Get(h_steps[p].expected_invocation), r))
               => r \in ReportedUnexpected

C29_TestNeverMutated ==
    [][/\ h_steps' = h_steps
       /\ \A k \in 1..Len(h_expected_invocations') :
              LET e == h_expected_invocations'[k]
              IN  Some(e.invocation) = h_steps[e.step_index + 1].expected_invocation]_vars

\* all three operations have run on a test that declares an expectation, and
\* one of its expectations was matched by a record of the trace
C29_Witness ==
    /\ h_pre = "ok" /\ h_post
    /\ h_last.exc = "" /\ h_last.val # None
    /\ \E i \in 1..Len(h_expected_invocations) : AssignedTo(i) # 0

\* C34: post_evaluate never turns a failed result into a passed one: whenever
\* it leaves a result that passed, it left passed, result and reasoning as it
\* found them, and so it does when it found no validation error or when the
\* test declares no expected invocation.
C34_NeverTurnsIntoPassed ==
    [][(h_post' /\ ~h_post) =>
           /\ h_test_result'.passed => h_test_result' = h_test_result
           /\ (h_expected_invocations = <<>> \/ h_errors' = <<>>)
                  => h_test_result' = h_test_result]_vars

\* post_evaluate has validated, without an error, a test that declares an
\* expectation and that the evaluator had failed
C34_Witness ==
    /\ h_post
    /\ h_expected_invocations # <<>>
    /\ h_errors = <<>>
    /\ ~h_test_result.passed
    /\ h_test_result.result = "FAILED"

----------------------------------------------------------------------------
(* Claims about the event stream (checked under SpecStream) *)

\* invoke has returned a response for the stream
Returned == t_pc = "done" /\ ~IsSet(s_direct)

\* the stream carries a returnControl event
HasPause(stream) == \E i \in 1..Len(stream) : IsSet(stream[i].returnControl)

\* the characters of a chunk's bytes: one per byte below 128, one per pair of
\* bytes otherwise
Characters(bytes) ==
    LET starts == {i \in 1..Len(bytes) : bytes[i] < 128 \/ bytes[i] >= 192}
        idx == SelectSeq([i \in 1..Len(bytes) |-> i], LAMBDA i : i \in starts)
    IN  [k \in 1..Len(idx) |->
            IF bytes[idx[k]] < 128 THEN bytes[idx[k]]
            ELSE (bytes[idx[k]] - 192) * 64 + (bytes[idx[k] + 1] - 128)]

\* the text of every content chunk of the stream, in stream order
RECURSIVE ChunkText(_)
ChunkText(stream) ==
    IF stream = <<>> THEN <<>>
    ELSE (IF IsSet(Head(stream).chunk)
          THEN Characters(Get(Head(stream).chunk).bytes) ELSE <<>>)
         \o ChunkText(Tail(stream))

\* every trace fragment of the stream, in stream order
RECURSIVE Fragments(_)
Fragments(stream) ==
    IF stream = <<>> THEN <<>>
    ELSE (IF IsSet(Head(stream).trace)
          THEN <<Get(Head(stream).trace).trace>> ELSE <<>>)
         \o Fragments(Tail(stream))

\* C15: for a stream that ends without a pause event, the response text
\* invoke returns is the concatenation, in stream order, of the decoded bytes
\* of every content chunk of the stream.
C15_ResponseIsChunkText ==
    (Returned /\ ~HasPause(s_stream)) => t_response.response = ChunkText(s_stream)

\* three chunks, one of them of two-byte characters, one sharing its event
\* with a trace fragment
C15_Witness ==
    /\ Returned /\ ~HasPause(s_stream)
    /\ Len(s_stream) = 3
    /\ \A i \in 1..3 : IsSet(s_stream[i].chunk)
    /\ IsSet(s_stream[3].trace)
    /\ Len(t_response.response) = 3

\* the first half of C16 alone: every trace fragment delivered is recorded
TraceFragmentsRecorded ==
    (Returned /\ ~HasPause(s_stream)) => t_trace_data = Fragments(s_stream)

\* C16: every trace fragment delivered in the stream is recorded in
\* data['bedrock_agent_trace'] in stream order, also one delivered in the
\* same event as a content chunk; and the data returned always carries the
\* keys 'bedrock_agent_citations' and 'bedrock_agent_return_control'.
C16_TraceAndKeysReturned ==
    (Returned /\ ~HasPause(s_stream)) =>
        /\ "bedrock_agent_trace" \in t_response.data
        /\ t_trace_data = Fragments(s_stream)
        /\ "bedrock_agent_citations" \in t_response.data
        /\ "bedrock_agent_return_control" \in t_response.data

\* C17: when the stream contains a returnControl event, also one that shares
\* its event with a content chunk, invoke returns the concatenation of all
\* chunks received as the response text and exposes the pause event under
\* data['bedrock_agent_return_control'].
C17_PauseExposed ==
    (Returned /\ HasPause(s_stream)) =>
        /\ t_response.response = t_received
        /\ "bedrock_agent_return_control" \in t_response.data

\* the second half of the response claim of C17 on its own: the chunks that
\* precede a pause event are returned
ChunksBeforePauseReturned ==
    (Returned /\ HasPause(s_stream)) => t_response.response = t_received

\* C18: handle_return_control, given a pause event and caller-supplied
\* results, calls the transport exactly once with
\* sessionState.returnControlInvocationResults equal to a one-element list of
\* the pause's invocationId, its invocationInputs and the supplied results.
C18_DirectResumption ==
    IsSet(s_direct) =>
        /\ t_pc # "raised"
        /\ t_last_call.sessionState.returnControlInvocationResults =
               Some(<<[invocationId |-> Get(s_direct).return_control.invocationId,
                       invocationInputs |->
                           Get(s_direct).return_control.invocationInputs,
                       invocationResults |-> Get(s_direct).invocation_results]>>)

\* the position of the first event of a stream that satisfies P, 0 if none does
FirstEvent(stream, P(_)) ==
    LET hits == {i \in 1..Len(stream) : P(stream[i])}
    IN  IF hits = {} THEN 0 ELSE CHOOSE i \in hits : \A k \in hits : i <= k

\* the code points of the text of the i-th chunk of a stream
ChunkCodes(i) ==
    {Decode(ChunkBytes(i))[k] : k \in 1..Len(Decode(ChunkBytes(i)))}

\* nothing delivered after position k of the stream has reached the text
\* received, the response or the trace
NothingAfter(k) ==
    \A i \in (k + 1)..Len(s_stream) :
        /\ IsSet(s_stream[i].chunk) =>
               /\ \A n \in 1..Len(t_received) : t_received[n] \notin ChunkCodes(i)
               /\ \A n \in 1..Len(t_response.response) :
                      t_response.response[n] \notin ChunkCodes(i)
        /\ IsSet(s_stream[i].trace) =>
               \A n \in 1..Len(t_trace_data) :
                   t_trace_data[n] # Get(s_stream[i].trace).trace

\* C35: a pause event ends the processing of its stream: once handle_response
\* has met a returnControl event, no chunk and no trace fragment that follows
\* it in that stream reaches the response or the trace.
C35_PauseEndsStream ==
    LET k == FirstEvent(s_stream, LAMBDA e : IsSet(e.returnControl))
    IN  (t_pc \in {"paused", "done"} /\ k # 0) => NothingAfter(k)

\* the same for the pause events that handle_response handles as a pause,
\* those that carry neither a chunk nor a trace fragment
PauseEndsStream_WhenHandled ==
    LET k == FirstEvent(s_stream,
                        LAMBDA e : /\ IsSet(e.returnControl)
                                   /\ ~IsSet(e.chunk) /\ ~IsSet(e.trace))
    IN  (t_pc \in {"paused", "done"} /\ k # 0) => NothingAfter(k)

----------------------------------------------------------------------------
(* Claims about the loader (checked under SpecSuite) *)

DuplicateNames(tests) ==
    \E i, j \in 1..Len(tests) : i # j /\ tests[i].name = tests[j].name

\* C19: constructing a TestSuite from tests of which two have the same name
\* fails with an error; every TestSuite constructed has pairwise distinct
\* test names.
C19_TestNamesUnique ==
    /\ l_pc = "constructed" => ~DuplicateNames(Get(l_tests))
    /\ (IsSet(l_tests) /\ l_pc # "loaded" /\ DuplicateNames(Get(l_tests)))
           => (l_pc = "raised" /\ l_exc = "ValueError")

\* the filter named a test twice, and the construction of the suite failed
C19_Witness ==
    /\ l_pc = "raised" /\ l_exc = "ValueError"
    /\ IsSet(l_tests) /\ Len(Get(l_tests)) = 2
    /\ Get(l_tests)[1].name = Get(l_tests)[2].name

\* the names load walks through: the filter's, or every key of the config
SelectedNames ==
    IF l_filter # <<>> THEN parse_filter(l_filter) ELSE ConfigKeys(l_config)

AllConfigured ==
    \A k \in 1..Len(SelectedNames) :
        \E i \in 1..Len(l_config) : l_config[i].name = SelectedNames[k]

\* the step configurations load walks through, in its order
RECURSIVE StepsOf(_)
StepsOf(names) ==
    IF names = <<>> THEN <<>>
    ELSE LET hits == {i \in 1..Len(l_config) : l_config[i].name = Head(names)}
         IN  (IF hits = {} THEN <<>>
              ELSE l_config[CHOOSE i \in hits : TRUE].steps)
             \o StepsOf(Tail(names))

\* a dict-shaped step without a 'step' field, or a step that is neither a
\* string nor a dict
Malformed(step_config) ==
    \/ step_config.kind = "other"
    \/ step_config.kind = "dict" /\ ~IsSet(step_config.step)

\* an expected_invocation that lacks a required field
LacksRequiredField(step_config) ==
    /\ step_config.kind = "dict" /\ IsSet(step_config.step)
    /\ IsSet(step_config.expected_invocation)
    /\ LET inv == Get(step_config.expected_invocation)
       IN  \/ ~IsSet(inv.invocation_response_file)
           \/ /\ IsSet(inv.apiInvocationInput)
              /\ \/ ~IsSet(Get(inv.apiInvocationInput).actionGroup)
                 \/ ~IsSet(Get(inv.apiInvocationInput).apiPath)
                 \/ ~IsSet(Get(inv.apiInvocationInput).httpMethod)
           \/ /\ IsSet(inv.functionInvocationInput)
              /\ \/ ~IsSet(Get(inv.functionInvocationInput).actionGroup)
                 \/ ~IsSet(Get(inv.functionInvocationInput).function)

\* the first step configuration of the walk that load cannot parse, 0 if none
FirstDefect ==
    LET steps == StepsOf(SelectedNames)
        bad == {i \in 1..Len(steps) :
                   Malformed(steps[i]) \/ LacksRequiredField(steps[i])
                       \/ steps[i].step = Some("")}
    IN  IF bad = {} THEN 0 ELSE CHOOSE i \in bad : \A j \in bad : i <= j

\* C20: loading fails with a ValueError when a dict-shaped step has no 'step'
\* field or a step is neither a string nor a dict, and fails at load time
\* when an expected_invocation lacks a required field; no Test object comes
\* out of the load in these cases. (The error is the one of the first step
\* load cannot parse.)
C20_MalformedStepFailsLoad ==
    (l_pc # "start" /\ AllConfigured /\ FirstDefect # 0) =>
        LET step_config == StepsOf(SelectedNames)[FirstDefect]
        IN  /\ l_pc = "raised"
            /\ ~IsSet(l_tests)
            /\ Malformed(step_config) => l_exc = "ValueError"
            /\ LacksRequiredField(step_config) => l_exc # ""

\* the second step of a test has no 'step' field, after a step that parses
C20_Witness ==
    /\ l_pc = "raised" /\ l_exc = "ValueError" /\ AllConfigured
    /\ FirstDefect = 2
    /\ LET step_config == StepsOf(SelectedNames)[2]
       IN  step_config.kind = "dict" /\ ~IsSet(step_config.step)

\* an expected_invocation without its apiPath failed the load
C20_FieldWitness ==
    /\ l_pc = "raised" /\ AllConfigured /\ FirstDefect # 0
    /\ LacksRequiredField(StepsOf(SelectedNames)[FirstDefect])

\* the configured steps of the k-th test load returned
ConfiguredSteps(k) ==
    LET name == Get(l_tests)[k].name
    IN  l_config[CHOOSE i \in 1..Len(l_config) : l_config[i].name = name].steps

\* the configured parameter list, empty when the key is left out
ConfiguredParameters(variant_config) ==
    IF IsSet(variant_config.parameters) THEN Get(variant_config.parameters) ELSE <<>>

\* the parsed expected invocation carries the configured fields
SameInvocation(inv_config, expected) ==
    /\ expected.invocation_response_file = Get(inv_config.invocation_response_file)
    /\ IsSet(inv_config.apiInvocationInput) =>
           /\ IsSet(expected.apiInvocationInput)
           /\ LET c == Get(inv_config.apiInvocationInput)
                  e == Get(expected.apiInvocationInput)
              IN  /\ e.actionGroup = Get(c.actionGroup)
                  /\ e.apiPath = Get(c.apiPath)
                  /\ e.httpMethod = Get(c.httpMethod)
                  /\ e.parameters = ConfiguredParameters(c)
    /\ IsSet(inv_config.functionInvocationInput) =>
           /\ IsSet(expected.functionInvocationInput)
           /\ LET c == Get(inv_config.functionInvocationInput)
                  e == Get(expected.functionInvocationInput)
              IN  /\ e.actionGroup = Get(c.actionGroup)
                  /\ e.function = Get(c.function)
                  /\ e.parameters = ConfiguredParameters(c)

\* the parsed entry is what the configured entry asks for
SameStep(step_config, step) ==
    IF step_config.kind = "str"
    THEN step.kind = "str" /\ step.step = step_config.text
    ELSE /\ step_config.kind = "dict"
         /\ step.kind = "TestStep"
         /\ step.step = Get(step_config.step)
         /\ IsSet(step.expected_invocation) = IsSet(step_config.expected_invocation)
         /\ IsSet(step_config.expected_invocation) =>
                SameInvocation(Get(step_config.expected_invocation),
                               Get(step.expected_invocation))

\* C21: step parsing preserves length, order and kind: as many parsed steps
\* as configured ones, entry i from configured entry i, a string entry a plain
\* string, a dict entry a TestStep with the configured step text, identity
\* fields, response file and parameter list in configured order.
C21_ParsePreservesSteps ==
    IsSet(l_tests) =>
        \A k \in 1..Len(Get(l_tests)) :
            LET steps == Get(l_tests)[k].steps
                configured == ConfiguredSteps(k)
            IN  /\ Len(steps) = Len(configured)
                /\ \A i \in 1..Len(steps) : SameStep(configured[i], steps[i])

\* a plain step followed by a step with an API expectation of two parameters
C21_Witness ==
    /\ IsSet(l_tests) /\ Len(Get(l_tests)) >= 1
    /\ LET steps == Get(l_tests)[1].steps
       IN  /\ Len(steps) = 2
           /\ steps[1].kind = "str" /\ steps[2].kind = "TestStep"
           /\ IsSet(steps[2].expected_invocation)
           /\ IsSet(Get(steps[2].expected_invocation).apiInvocationInput)
           /\ Len(Get(Get(steps[2].expected_invocation).apiInvocationInput)
                      .parameters) = 2

\* exactly one of the two variants is populated
ExactlyOneVariant(expected) ==
    IsSet(expected.apiInvocationInput) # IsSet(expected.functionInvocationInput)

\* C22: every ExpectedInvocation the loader produces has exactly one of
\* apiInvocationInput and functionInvocationInput populated, never both and
\* never neither.
C22_ExactlyOneVariant ==
    IsSet(l_tests) =>
        \A k \in 1..Len(Get(l_tests)) :
            \A i \in 1..Len(Get(l_tests)[k].steps) :
                LET step == Get(l_tests)[k].steps[i]
                IN  IsSet(step.expected_invocation)
                        => ExactlyOneVariant(Get(step.expected_invocation))

----------------------------------------------------------------------------
(* Claims about the controller (checked under SpecTarget) *)

\* the pending input matches the expected invocation: it is of the variant
\* the expectation declares, with equal identity fields and parameters
MatchesLive(e, input) ==
    \/ /\ IsSet(e.apiInvocationInput) /\ IsSet(input.apiInvocationInput)
       /\ match_api_invocation(Get(e.apiInvocationInput),
                               Get(input.apiInvocationInput))
    \/ /\ ~IsSet(e.apiInvocationInput)
       /\ IsSet(e.functionInvocationInput) /\ IsSet(input.functionInvocationInput)
       /\ match_function_invocation(Get(e.functionInvocationInput),
                                    Get(input.functionInvocationInput))

\* the pending input matches an expected invocation whose mock file is loaded
Resolvable(input) ==
    /\ t_has_hook
    /\ \E i \in 1..Len(h_expected_invocations) :
           /\ MatchesLive(h_expected_invocations[i].invocation, input)
           /\ h_response_files[h_expected_invocations[i].invocation
                                   .invocation_response_file] # None

\* M: how many pending inputs of the pause event are resolvable
MatchCount(return_control) ==
    Cardinality({k \in 1..Len(return_control.invocationInputs) :
                    Resolvable(return_control.invocationInputs[k])})

\* handle_return_control has run on the pause event held in t_pending
PauseHandled == IsSet(t_pending) /\ t_pc # "paused"

\* C2: for a pause event of which M inputs match an expected invocation with a
\* loaded mock file, handle_return_control sends a resumption payload of
\* exactly M results; when M = 0 it makes no transport call and returns an
\* empty response text with return_control_handled = false.
C2_PayloadHasMResults ==
    PauseHandled =>
        IF MatchCount(Get(t_pending)) > 0
        THEN /\ t_pc = "awaiting"
             /\ t_ncalls = t_npauses + 1
             /\ IsSet(t_last_call.sessionState.returnControlInvocationResults)
             /\ Len(Get(t_last_call.sessionState.returnControlInvocationResults))
                    = MatchCount(Get(t_pending))
        ELSE /\ t_pc = "done"
             /\ t_ncalls = t_npauses
             /\ t_response = Unhandled

\* C6: when an invoke went through pause -> resume cycles and its last stream
\* ran to its end, the response text returned is the in-order concatenation
\* of the chunks of every stream segment of the turn.
C6_ResponseIsEveryChunk ==
    (t_pc = "done" /\ ~IsSet(t_pending)) => t_response.response = t_received

\* C7: an invoke stops exactly when a stream ends without a pause event or a
\* pause yields zero resumption results, and has then made 1 + k transport
\* calls, k the number of pauses for which a result was produced (every pause
\* but the one it stopped at).
C7_StopsAfterOnePlusKCalls ==
    (t_pc \in {"done", "raised"}) =>
        IF IsSet(t_pending)
        THEN MatchCount(Get(t_pending)) = 0 /\ t_ncalls = 1 + (t_npauses - 1)
        ELSE t_ncalls = 1 + t_npauses

\* the result answers one of the pending inputs of the pause event
AnswersAnInput(result, return_control) ==
    \E k \in 1..Len(return_control.invocationInputs) :
        LET input == return_control.invocationInputs[k]
        IN  \/ /\ IsSet(result.apiResult) /\ IsSet(input.apiInvocationInput)
               /\ Get(result.apiResult).actionGroup
                      = Get(input.apiInvocationInput).actionGroup
               /\ Get(result.apiResult).apiPath
                      = Get(input.apiInvocationInput).apiPath
            \/ /\ IsSet(result.functionResult)
               /\ IsSet(input.functionInvocationInput)
               /\ Get(result.functionResult).actionGroup
                      = Get(input.functionInvocationInput).actionGroup
               /\ Get(result.functionResult).function
                      = Get(input.functionInvocationInput).function

MockContent(input) ==
    LET hits == {i \in 1..Len(h_expected_invocations) :
                    MatchesLive(h_expected_invocations[i].invocation, input)}
        first == CHOOSE i \in hits : \A j \in hits : i <= j
    IN  h_response_files[h_expected_invocations[first].invocation
                             .invocation_response_file]

\* the result that mirrors the variant of the pending input
MirroredResult(input) ==
    IF IsSet(input.apiInvocationInput)
    THEN [apiResult |->
              Some([actionGroup |-> Get(input.apiInvocationInput).actionGroup,
                    apiPath |-> Get(input.apiInvocationInput).apiPath,
                    httpMethod |-> Get(input.apiInvocationInput).httpMethod,
                    responseBody |-> [text |-> [body |-> MockContent(input)]]]),
          functionResult |-> Absent]
    ELSE [apiResult |-> Absent,
          functionResult |->
              Some([actionGroup |-> Get(input.functionInvocationInput).actionGroup,
                    function |-> Get(input.functionInvocationInput).function,
                    responseBody |-> [TEXT |-> [body |-> MockContent(input)]]])]

\* the matched inputs of the pause event, in the order of the event
MatchedInputs(return_control) ==
    SelectSeq(return_control.invocationInputs, Resolvable)

\* C14: each result of the resumption payload mirrors the variant of the
\* pending input it answers (apiResult with actionGroup, apiPath, httpMethod
\* and responseBody.text.body; functionResult with actionGroup, function and
\* responseBody.TEXT.body), and the results are in the order of the matched
\* inputs of the pause event.
C14_ResultsMirrorInputs ==
    (t_pc = "awaiting" /\ t_ncalls >= 2) =>
        LET results == Get(t_last_call.sessionState.returnControlInvocationResults)
            matched == MatchedInputs(Get(t_pending))
        IN  /\ Len(results) = Len(matched)
            /\ \A k \in 1..Len(results) : results[k] = MirroredResult(matched[k])

\* two different inputs were answered, in the order of the pause event, which
\* is not the order of the steps that expect them
C14_Witness ==
    /\ t_pc = "awaiting" /\ t_ncalls >= 2
    /\ LET results == Get(t_last_call.sessionState.returnControlInvocationResults)
       IN  /\ Len(results) = 2
           /\ IsSet(results[1].apiResult) /\ IsSet(results[2].apiResult)
           /\ Get(results[1].apiResult).actionGroup = "ag2"
           /\ Get(results[2].apiResult).actionGroup = "ag1"
           /\ h_expected_invocations[1].invocation = E1

\* a function-shaped input was answered with a function result
C14_FunctionAnswered ==
    /\ t_pc = "awaiting" /\ t_ncalls >= 2
    /\ IsSet(Get(t_last_call.sessionState.returnControlInvocationResults)[1]
                 .functionResult)

\* Supporting checks: the runs in which the lookup raises are the only ones
\* that break the two statements above.
PayloadHasMResults_UnlessRaised == t_pc # "raised" => C2_PayloadHasMResults
StopsAfterOnePlusKCalls_UnlessRaised == t_pc # "raised" => C7_StopsAfterOnePlusKCalls

----------------------------------------------------------------------------
(* Claims about the order of the lookup (checked under SpecHook) *)

\* what the lookup owes a pending input: the cached content of the file of
\* the earliest expectation, in step order, that matches it; None if none does
EarliestMatchResponse(input) ==
    LET hits == {i \in 1..Len(h_expected_invocations) :
                    MatchesLive(h_expected_invocations[i].invocation, input)}
    IN  IF hits = {} THEN [exc |-> "", val |-> None]
        ELSE LET first == CHOOSE i \in hits : \A j \in hits : i <= j
             IN  [exc |-> "",
                  val |-> h_response_files[h_expected_invocations[first].invocation
                                               .invocation_response_file]]

\* C32: get_response_for_invocation serves the first expected invocation, in
\* step order over all steps of the test, that matches the live input, and
\* serving consumes nothing: whatever was looked up before, the outcome of a
\* lookup is the response file of the earliest matching expectation.
C32_LookupServesEarliestMatch ==
    (h_pre = "ok" /\ h_last # [exc |-> "", val |-> None]) =>
        \E input \in LiveInputs : h_last = EarliestMatchResponse(input)

\* the same statement for the lookups that returned
LookupServesEarliestMatch_UnlessRaised ==
    (h_pre = "ok" /\ h_last.exc = "" /\ h_last.val # None) =>
        \E input \in LiveInputs : h_last = EarliestMatchResponse(input)

----------------------------------------------------------------------------
(* Claims about an expectation of no variant (checked under SpecNeither) *)

\* neither matcher accepts any actual record for the variant-less expectation
NeitherNeverMatches ==
    \A a \in MatchActualSet \cup Actuals :
        /\ match_invocation(N0, LiveOf(a)) = Ret(FALSE)
        /\ \A executionType \in {"RETURN_CONTROL", "LAMBDA"} :
               ~match_trace_invocation(N0, TraceOf(a, executionType))

\* the steps that declare the variant-less expectation
NeitherSteps ==
    {p \in 1..Len(h_steps) : h_steps[p].expected_invocation = Some(N0)}

\* C27: an ExpectedInvocation with neither variant set never matches:
\* match_invocation and match_trace_invocation return false for every actual
\* record, get_response_for_invocation never serves its mock response, and
\* post_evaluate always reports it as 'Expected invocation not found'.
C27_NeitherVariantNeverMatches ==
    NeitherSteps # {} =>
        /\ NeitherNeverMatches
        /\ h_pre = "ok" =>
               h_last.val # h_response_files[N0.invocation_response_file]
        /\ h_post =>
               \A p \in NeitherSteps :
                   \E k \in 1..Len(h_errors) :
                       /\ h_errors[k].kind = "not_found"
                       /\ h_errors[k].step_index = p - 1
                       /\ h_errors[k].expected = Some(N0)

\* the variant-less expectation's file is loaded, a lookup has been answered
\* from another expectation, and post_evaluate has run on a trace of records
C27_Witness ==
    /\ NeitherSteps # {}
    /\ h_pre = "ok" /\ h_post
    /\ h_last.exc = "" /\ h_last.val # None
    /\ ReturnControlInvocations(h_trace) # <<>>
    /\ h_test_result.result = "RETURN_CONTROL_VALIDATION_FAILED"

----------------------------------------------------------------------------
(* Claims about transport failures (checked under SpecTransport) *)

\* C23: a failure of the transport call, on the initial send or on a resume,
\* reaches the caller of invoke as the same error; after it the controller
\* makes no further transport call and no response is returned.
C23_TransportFailurePropagates ==
    [][/\ t_call_error' # "" =>
              /\ t_pc' = "raised"
              /\ t_exc' = t_call_error'
              /\ t_response' = NoResponse
       /\ t_call_error # "" =>
              /\ t_ncalls' = t_ncalls
              /\ t_last_call' = t_last_call]_vars

\* a resumption call failed
C23_Witness ==
    /\ t_call_error \in ClientErrors
    /\ t_ncalls >= 2
    /\ t_exc = t_call_error

\* the first call failed
C23_InitialWitness ==
    /\ t_call_error \in ClientErrors
    /\ t_ncalls = 1

----------------------------------------------------------------------------
(* Claims about two instances (checked under SpecPair) *)

\* the objects instance i's response cache, expected-invocation list, trace
\* accumulator and citation accumulator are
Cells(i) ==
    {p_hook[i].expected_invocations, p_hook[i].response_files,
     p_target[i].trace_data, p_target[i].citations}

\* C30: two hook/controller instances created for two tests share no mutable
\* state: in any interleaving, an operation (pre_evaluate,
\* get_response_for_invocation, post_evaluate, invoke) of one instance leaves
\* the response cache, the expected-invocation list and the trace and citation
\* accumulators of the other as they were.
C30_InstancesShareNothing ==
    [][\A j \in Instances :
           j # p_acting' => \A a \in Cells(j) : p_heap'[a] = p_heap[a]]_vars

\* both instances have loaded their files and invoked, and hold different
\* caches and different accumulated traces; one has been evaluated
C30_Witness ==
    /\ \A i \in Instances : p_pre[i] = "ok" /\ p_ninvokes[i] >= 1
    /\ p_heap[p_hook[1].response_files] # p_heap[p_hook[2].response_files]
    /\ p_heap[p_target[1].citations] # p_heap[p_target[2].citations]
    /\ p_post[1]

----------------------------------------------------------------------------
(* Claims about the accumulators (checked under SpecSession) *)

IsPrefix(p, q) == Len(p) <= Len(q) /\ SubSeq(q, 1, Len(p)) = p

C33_CitationWitness ==
    /\ t_pc = "done" /\ t_npauses = 1 /\ t_ncalls = 2
    /\ t_received = <<>>
    /\ t_citations # <<>>

============================================================================
